---- MODULE Spec2Model ----
(***************************************************************************)
(* Model of the scrape orchestrator of the bol.com product scraper         *)
(* (src/scraper.py) with the collaborators it calls: create_driver,        *)
(* navigate_to_page and retry_extraction (src/browser.py) and              *)
(* save_result_to_excel (src/file_handler.py).                             *)
(*                                                                         *)
(* The components the orchestrator calls are modelled on their own, each   *)
(* with its own variables and its own specification: the retry wrapper     *)
(* (SpecRetry), get_product_ean (SpecEan), the regex tier (SpecRegex),     *)
(* get_product_price (SpecPrice), the collection of product URLs           *)
(* (SpecUrls), the resolution of the listing pages (SpecPagination), the   *)
(* collection of the product URLs of one page (SpecCollect), the callers   *)
(* of navigate_to_page (SpecNavigate), update_missing_ean_codes            *)
(* (SpecUpdate), the visit of one product in either pass (SpecVisit), the  *)
(* loop of main over the categories (SpecMain, src/main.py) and the URL    *)
(* resolution of src/final.py next to that of src/url_extractor.py         *)
(* (SpecEquiv).  SpecFair is the orchestrator under weak fairness.  In one *)
(* specification the variables of the others rest.                         *)
(* Texts read from a page are sequences of one-character strings.          *)
(*                                                                         *)
(* Values.  A price is a Python float or None, an EAN a str or None.  They *)
(* are written here as strings: "None" is None, "0.0" the float zero, ""   *)
(* the empty string; every other string is a truthy value.                 *)
(*                                                                         *)
(* Exceptions.  A call (navigation, extraction with retries, URL           *)
(* resolution, summary, save, driver creation, quit) may raise; printing   *)
(* and arithmetic on local variables do not.                               *)
(***************************************************************************)
EXTENDS Integers, Sequences, FiniteSets, TLC

\* ------------------------------------------------------------------ bounds
\* Largest number of product URLs that URL resolution returns.
MaxUrls == 2
\* Largest max_attempts given to the retry wrapper.
MaxAttempts == 3
\* Longest digit run in a text given to the regex tier.
MaxDigits == 15
\* Most rows of the specification panel seen by one tier.
MaxRows == 2
\* Most listing pages of a category.
MaxPages == 3
\* Most items of a pagination control, and the largest page number in it.
MaxItems == 3
MaxPageNo == 3
\* Most link elements on a listing page.
MaxLinks == 4
\* Most rows of the output file that is updated.
MaxFileRows == 3
\* Most category URLs given to main.
MaxCategories == 4

\* ------------------------------------------------------- program constants
RETRY_ATTEMPTS == 2
\* EAN_PATTERN = r'EAN[:\s\-]*(\d{8,14})': the bounds of the digit run.
EAN_MIN_DIGITS == 8
EAN_MAX_DIGITS == 14

\* ------------------------------------------------------------ value spaces
None == "None"
URLS == 1..MaxUrls
PRICES == {"9.99", "12.5"}
EANS == {"12345678", "87654321"}

\* What one call of get_product_price can return: None or a float (0.0 when
\* the page shows a price of zero).
PriceResults == {None, "0.0"} \cup PRICES
\* What one call of get_product_ean can return: None or a non-empty string.
EanResults == {None} \cup EANS

\* The results an extraction function gives on its successive calls.
PriceAttempts == [1..RETRY_ATTEMPTS -> PriceResults]
EanAttempts == [1..RETRY_ATTEMPTS -> EanResults]

Phases == {"INIT", "RESOLVING_URLS", "EXTRACTING", "RETRYING", "SAVING", "DONE", "ERROR"}

NotWritten == [file |-> FALSE, rows |-> <<>>]
NoSummary == [emitted |-> FALSE]

\* ----------------------------------------------------------- pure helpers
Truthy_ZeroIsAValue(x) == x \notin {None, ""}
\* Python truthiness of an extraction result (`if result:`, `if not price`).
Truthy(x) == x \notin {None, "", "0.0"}

\* `ean if ean else ''` / `price if price else ''`.
FieldValue(x) == IF Truthy(x) THEN x ELSE ""

\* retry_extraction from attempt number `attempt` (0-based) on.
RECURSIVE RetryFrom(_, _, _)
RetryFrom(f, attempt, max_attempts) ==
    IF attempt >= max_attempts
    THEN [result |-> None, calls |-> attempt,
          sleeps |-> IF max_attempts > 0 THEN max_attempts - 1 ELSE 0]
    ELSE IF Truthy(f[attempt + 1])
         THEN [result |-> f[attempt + 1], calls |-> attempt + 1, sleeps |-> attempt]
         ELSE RetryFrom(f, attempt + 1, max_attempts)

retry_extraction(f, max_attempts) == RetryFrom(f, 0, max_attempts)

\* The record appended for one product.
product_data(url, ean, price) ==
    [url |-> url, ean |-> FieldValue(ean), price |-> FieldValue(price)]

\* products_dict.get(product_url): the position in products_data of the
\* record the dictionary holds for the URL (the last one stored), 0 if none.
products_dict_get(data, url) ==
    LET hits == {i \in 1..Len(data) : data[i].url = url}
    IN IF hits = {} THEN 0 ELSE CHOOSE i \in hits : \A j \in hits : j <= i

SeqToSet(s) == {s[i] : i \in 1..Len(s)}

\* What retry_extraction(get_product_price, ...) and
\* retry_extraction(get_product_ean, ...) can return on one page.
PriceOutcomes == {retry_extraction(f, RETRY_ATTEMPTS).result : f \in PriceAttempts}
EanOutcomes == {retry_extraction(f, RETRY_ATTEMPTS).result : f \in EanAttempts}

\* The lists URL resolution can return: k distinct URLs, no duplicates (the
\* list is built from a set).  A URL is named by its position in the list.
ProductUrlLists == {[i \in 1..k |-> i] : k \in 0..MaxUrls}

\* ---------------------------------------------------------------- state
VARIABLES
    phase,                \* state of the scrape state machine
    pc,                   \* control position: "create", "body", "finally", "returned", "raised"
    session,              \* browser session: "none", "live", "closed"
    quitCalls,            \* number of driver.quit() calls
    product_urls,         \* list returned by extract_product_urls_from_category
    idx,                  \* next position of the phase-1 loop (1-based)
    products_data,        \* list of records (shared with products_dict)
    failed_products,      \* list of URLs queued for the retry pass
    missing_ean_count,    \* stats['missing_ean_count']
    missing_price_count,  \* stats['missing_price_count']
    error_count,          \* stats['error_count']
    ridx,                 \* next position of the retry loop (1-based)
    r_missing_ean,        \* local missing_ean_count of _retry_failed_products
    r_missing_price,      \* local missing_price_count of _retry_failed_products
    summary,              \* what _print_summary printed
    handed,               \* save_result_to_excel was called
    written,              \* the output file: whether written, and its rows
    nav1,                 \* history: navigations per URL in the main pass
    nav2,                 \* history: navigations per URL in the retry pass
    raised1,              \* history: URLs whose phase-1 processing raised
    raised2,              \* history: URLs whose retry raised
    phase1_data,          \* history: products_data when EXTRACTING ended
    offered               \* history: the last retry found a field already set for
                          \* which the page now shows another value

vars == <<phase, pc, session, quitCalls, product_urls, idx,
          products_data, failed_products, missing_ean_count,
          missing_price_count, error_count, ridx, r_missing_ean,
          r_missing_price, summary, handed, written, nav1, nav2, raised1,
          raised2, phase1_data, offered>>

driverVars == <<session, quitCalls>>
statsVars == <<products_data, failed_products, missing_ean_count,
               missing_price_count, error_count>>
retryVars == <<ridx, r_missing_ean, r_missing_price>>
outVars == <<summary, handed, written>>
histVars == <<nav1, nav2, raised1, raised2, phase1_data, offered>>

\* ---------------------------------------- state of the other components
VARIABLES
    rw_pc,                \* retry_extraction: "idle", "loop", "done"
    rw_f,                 \* what extraction_func returns on its successive calls
    rw_n,                 \* max_attempts
    rw_attempt,           \* loop variable `attempt`
    rw_calls,             \* history: calls of extraction_func
    rw_sleeps,            \* history: calls of time.sleep
    rw_result             \* value returned

rwVars == <<rw_pc, rw_f, rw_n, rw_attempt, rw_calls, rw_sleeps, rw_result>>

RwIdle ==
    /\ rw_pc = "idle"
    /\ rw_f = <<>>
    /\ rw_n = 0
    /\ rw_attempt = 0
    /\ rw_calls = 0
    /\ rw_sleeps = 0
    /\ rw_result = None

VARIABLES
    rx_pc,                \* _extract_ean_regex: "idle", "call", "done"
    rx_parts,             \* history: how the panel text was put together
    rx_text,              \* text content of the specification panel
    rx_raised,            \* history: reading the text raised
    rx_out                \* value returned (<<>> is None)

rxVars == <<rx_pc, rx_parts, rx_text, rx_raised, rx_out>>

RxIdle ==
    /\ rx_pc = "idle"
    /\ rx_parts = <<>>
    /\ rx_text = <<>>
    /\ rx_raised = FALSE
    /\ rx_out = <<>>

VARIABLES
    ean_pc,               \* get_product_ean: "idle", "locate", "tier1",
                          \* "tier2", "tier3", "showmore", "done"
    ean_pass,             \* number of the pass of _extract_ean_from_specs
    spec_section,         \* the panel handle in use: "none", "h1", "h2"
    ean_clicks,           \* clicks on the show-more control
    ean_showmore,         \* history: how _try_show_more_and_extract went
    ean_log,              \* history: the tiers invoked, in order
    ean_result            \* value returned (<<>> is None)

eanVars ==
    <<ean_pc, ean_pass, spec_section, ean_clicks, ean_showmore, ean_log,
      ean_result>>

EanIdle ==
    /\ ean_pc = "idle"
    /\ ean_pass = 0
    /\ spec_section = "none"
    /\ ean_clicks = 0
    /\ ean_showmore = "untried"
    /\ ean_log = <<>>
    /\ ean_result = <<>>

VARIABLES
    pr_pc,                \* get_product_price: "idle", "call", "done"
    pr_page,              \* the product page as the function finds it
    pr_result             \* value returned

prVars == <<pr_pc, pr_page, pr_result>>

\* A float, or None (ok = FALSE): the whole part and the digits after the
\* point without trailing zeros, so that 8.00 = 8.0 and 12.5 = 12.50.
PriceNone == [ok |-> FALSE, whole |-> 0, frac |-> <<>>]
NoPage == [element |-> "none"]

PrIdle ==
    /\ pr_pc = "idle"
    /\ pr_page = NoPage
    /\ pr_result = PriceNone

VARIABLES
    uc_pc,                \* extract_product_urls_from_category: "idle",
                          \* "load", "pages", "done"
    uc_site_pages,        \* number of listing pages of the category
    uc_start_page,        \* argument start_page
    uc_max_pages,         \* argument max_pages
    total_pages,          \* len(page_urls), -1 before it is known
    end_page,             \* as computed on line 178, -1 before
    page_urls_to_process, \* the pages selected, by number
    uc_i,                 \* position of the loop in page_urls_to_process
    all_product_urls,     \* the accumulating set
    uc_nav,               \* history: the pages loaded, in order
    uc_load,              \* history: how loading the category page went
    uc_discovered,        \* history: the product URLs in the order of
                          \* their first discovery
    uc_failed,            \* history: the pages whose collection failed
    uc_result             \* the list returned

ucVars ==
    <<uc_pc, uc_site_pages, uc_start_page, uc_max_pages, total_pages,
      end_page, page_urls_to_process, uc_i, all_product_urls, uc_nav,
      uc_load, uc_discovered, uc_failed, uc_result>>

\* max_pages: None, or an integer.
Unbounded == [unbounded |-> TRUE, n |-> 0]
Pages(n) == [unbounded |-> FALSE, n |-> n]

UcIdle ==
    /\ uc_pc = "idle"
    /\ uc_site_pages = 0
    /\ uc_start_page = 0
    /\ uc_max_pages = Unbounded
    /\ total_pages = -1
    /\ end_page = -1
    /\ page_urls_to_process = <<>>
    /\ uc_i = 0
    /\ all_product_urls = {}
    /\ uc_nav = <<>>
    /\ uc_load = "untried"
    /\ uc_discovered = <<>>
    /\ uc_failed = {}
    /\ uc_result = <<>>

VARIABLES
    pg_pc,                \* extract_all_page_urls_from_pagination: "idle",
                          \* "call", "done"
    pg_page,              \* the listing page the driver shows
    pg_max_page,          \* history: max_page of line 41, -1 if not computed
    pg_urls               \* the list returned

pgVars == <<pg_pc, pg_page, pg_max_page, pg_urls>>

NoListing == [loaded |-> FALSE]

PgIdle ==
    /\ pg_pc = "idle"
    /\ pg_page = NoListing
    /\ pg_max_page = -1
    /\ pg_urls = <<>>

VARIABLES
    cp_pc,                \* extract_product_urls: "idle", "call", "done"
    cp_links,             \* the product-link elements of the listing page
    cp_nav,               \* history: "untried", "ok", "failed"
    cp_scanned,           \* history: the page was searched for links
    cp_result             \* the list returned

cpVars == <<cp_pc, cp_links, cp_nav, cp_scanned, cp_result>>

CpIdle ==
    /\ cp_pc = "idle"
    /\ cp_links = <<>>
    /\ cp_nav = "untried"
    /\ cp_scanned = FALSE
    /\ cp_result = <<>>

VARIABLES
    up_pc,                \* update_missing_ean_codes: "idle", "read", "create",
                          \* "loop", "save", "done"
    up_file,              \* the EAN cells of the Excel file, row by row
    up_df,                \* df[COL_EAN]
    up_missing,           \* the index of missing_ean_df
    up_i,                 \* next position in up_missing (1-based)
    up_session,           \* browser session: "none", "live", "closed"
    updated_count,        \* updated_count
    up_updated,           \* history: the rows that obtained a code
    up_written            \* df.to_excel: "no", "yes", "failed"

upVars == <<up_pc, up_file, up_df, up_missing, up_i, up_session,
            updated_count, up_updated, up_written>>

UpIdle ==
    /\ up_pc = "idle"
    /\ up_file = <<>>
    /\ up_df = <<>>
    /\ up_missing = <<>>
    /\ up_i = 1
    /\ up_session = "none"
    /\ updated_count = 0
    /\ up_updated = {}
    /\ up_written = "no"

VARIABLES
    pv_pc,                \* one product visit: "idle", "navigate", "price",
                          \* "ean", "done"
    pv_pass,              \* 1: _extract_product_details, 2: _retry_failed_products
    pv_start,             \* history: the fields of the record when the visit began
    pv_record,            \* the fields of the product's record
    pv_nav,               \* history: "untried", "ok", "failed"
    pv_calls,             \* history: the extractions called, in order
    pv_raised             \* history: an extraction raised

pvVars == <<pv_pc, pv_pass, pv_start, pv_record, pv_nav, pv_calls, pv_raised>>

NoFields == [price |-> "", ean |-> ""]

PvIdle ==
    /\ pv_pc = "idle"
    /\ pv_pass = 0
    /\ pv_start = NoFields
    /\ pv_record = NoFields
    /\ pv_nav = "untried"
    /\ pv_calls = <<>>
    /\ pv_raised = FALSE

VARIABLES
    mn_pc,                \* main: "idle", "loop", "create", "body", "finally",
                          \* "exit", "crashed"
    mn_categories,        \* number of category URLs to process
    mn_i,                 \* position in the list of the category in hand
    mn_sessions,          \* per category started: "none", "live", "closed"
    mn_ended              \* history: how the run of each category ended

mnVars == <<mn_pc, mn_categories, mn_i, mn_sessions, mn_ended>>

MnIdle ==
    /\ mn_pc = "idle"
    /\ mn_categories = 0
    /\ mn_i = 0
    /\ mn_sessions = <<>>
    /\ mn_ended = <<>>

VARIABLES
    eq_pc,                \* the two pipelines side by side: "idle", "load",
                          \* "resolve", "select", "collect", "done"
    eq_load,              \* history: how the category page loaded
    eq_reread,            \* history: final.py read the current URL again, in vain
    eq_start_page,        \* history: the start_page both were called with
    eq_max_pages,         \* history: the max_pages both were called with
    eq_mod,               \* url_extractor.py: page_urls, pages to process, result
    eq_fin                \* final.py: the same

eqVars == <<eq_pc, eq_load, eq_reread, eq_start_page, eq_max_pages, eq_mod, eq_fin>>

NoRun == [page_urls |-> <<>>, selected |-> <<>>, products |-> {}]

EqIdle ==
    /\ eq_pc = "idle"
    /\ eq_load = "untried"
    /\ eq_reread = FALSE
    /\ eq_start_page = 1
    /\ eq_max_pages = [unbounded |-> TRUE, n |-> 0]
    /\ eq_mod = NoRun
    /\ eq_fin = NoRun

\* The variables that rest in each specification.
nonOrchVars == <<rwVars, rxVars, eanVars, prVars, ucVars, pgVars, cpVars, upVars, pvVars, mnVars, eqVars>>
nonRwVars == <<vars, rxVars, eanVars, prVars, ucVars, pgVars, cpVars, upVars, pvVars, mnVars, eqVars>>
nonRxVars == <<vars, rwVars, eanVars, prVars, ucVars, pgVars, cpVars, upVars, pvVars, mnVars, eqVars>>
nonEanVars == <<vars, rwVars, rxVars, prVars, ucVars, pgVars, cpVars, upVars, pvVars, mnVars, eqVars>>
nonPrVars == <<vars, rwVars, rxVars, eanVars, ucVars, pgVars, cpVars, upVars, pvVars, mnVars, eqVars>>
nonUcVars == <<vars, rwVars, rxVars, eanVars, prVars, pgVars, cpVars, upVars, pvVars, mnVars, eqVars>>
nonPgVars == <<vars, rwVars, rxVars, eanVars, prVars, ucVars, cpVars, upVars, pvVars, mnVars, eqVars>>
nonCpVars == <<vars, rwVars, rxVars, eanVars, prVars, ucVars, pgVars, upVars, pvVars, mnVars, eqVars>>
nonUpVars == <<vars, rwVars, rxVars, eanVars, prVars, ucVars, pgVars, cpVars, pvVars, mnVars, eqVars>>
nonPvVars == <<vars, rwVars, rxVars, eanVars, prVars, ucVars, pgVars, cpVars, upVars, mnVars, eqVars>>
nonMnVars == <<vars, rwVars, rxVars, eanVars, prVars, ucVars, pgVars, cpVars, upVars, pvVars, eqVars>>
nonEqVars == <<vars, rwVars, rxVars, eanVars, prVars, ucVars, pgVars, cpVars, upVars, pvVars, mnVars>>

OrchInit ==
    /\ phase = "INIT"
    /\ pc = "create"
    /\ session = "none"
    /\ quitCalls = 0
    /\ product_urls = <<>>
    /\ idx = 1
    /\ products_data = <<>>
    /\ failed_products = <<>>
    /\ missing_ean_count = 0
    /\ missing_price_count = 0
    /\ error_count = 0
    /\ ridx = 1
    /\ r_missing_ean = 0
    /\ r_missing_price = 0
    /\ summary = NoSummary
    /\ handed = FALSE
    /\ written = NotWritten
    /\ nav1 = [u \in URLS |-> 0]
    /\ nav2 = [u \in URLS |-> 0]
    /\ raised1 = {}
    /\ raised2 = {}
    /\ phase1_data = <<>>
    /\ offered = FALSE

Init == OrchInit /\ RwIdle /\ RxIdle /\ EanIdle /\ PrIdle /\ UcIdle /\ PgIdle /\ CpIdle /\ UpIdle /\ PvIdle /\ MnIdle /\ EqIdle

\* ------------------------------------------------ conditions of the code
\* `if not price or not ean:` -- the product is queued for the retry pass.
MarkForRetry(price, ean) == ~Truthy(price) \/ ~Truthy(ean)

IsError_Either(price, ean) == ~Truthy(price) \/ ~Truthy(ean)
\* `if not price and not ean:` -- the product counts in error_count.
IsError(price, ean) == ~Truthy(price) /\ ~Truthy(ean)

NextAfterError_Abort(i, n) == n + 1
\* The per-product `except` ends the iteration; the loop goes on with the
\* next element (i: position of the product that raised, n: list length).
NextAfterError(i, n) == i + 1

RecordsAfter_SkipEmpty(data, record) ==
    IF record.ean = "" /\ record.price = "" THEN data ELSE Append(data, record)
\* `products_data.append(product_data)`, lines 129 and 146: the record is
\* appended whatever its fields hold.
RecordsAfter(data, record) == Append(data, record)

NoProducts_Never(urls) == FALSE
\* `if not product_urls:` (line 51) -- "No products found. Exiting."
NoProducts(urls) == urls = <<>>

ShouldRetry_Always(failed) == TRUE
\* `if stats['failed_products']:` -- the retry pass is entered.
ShouldRetry(failed) == failed # <<>>

RetryList_All(failed, data) == [i \in 1..Len(data) |-> data[i].url]
\* `failed_products = stats['failed_products']`: what the retry loop iterates.
RetryList(failed, data) == failed

NeedsRetry_Always(field) == TRUE
\* `if not product[COL_PRICE]:` / `if not product[COL_EAN]:`.
NeedsRetry(field) == ~Truthy(field)

\* ---------------------------------------------------------------- actions
\* scrape_category_products, line 36: create_driver() runs before the try.
\* uc.Chrome(...) may raise (no session exists), and so may the calls that
\* configure the driver after the session exists.
CreateDriver ==
    /\ UNCHANGED nonOrchVars
    /\ pc = "create"
    /\ \E outcome \in {"ok", "chrome_raises", "configure_raises"} :
        /\ session' = IF outcome = "chrome_raises" THEN "none" ELSE "live"
        /\ pc' = IF outcome = "ok" THEN "body" ELSE "raised"
        /\ phase' = IF outcome = "ok" THEN "RESOLVING_URLS" ELSE phase
    /\ UNCHANGED <<quitCalls, product_urls, idx, statsVars,
                   retryVars, outVars, histVars>>

\* Lines 46-59: the product URLs are resolved (a list built from a set, so
\* without duplicates, in any order); an empty list returns at once.
ResolveUrls ==
    /\ UNCHANGED nonOrchVars
    /\ pc = "body"
    /\ phase = "RESOLVING_URLS"
    /\ \E urls \in ProductUrlLists :
        /\ product_urls' = urls
        /\ IF NoProducts(urls)
           THEN phase' = "DONE" /\ pc' = "finally"
           ELSE phase' = "EXTRACTING" /\ pc' = "body"
    /\ idx' = 1
    /\ products_data' = <<>>
    /\ failed_products' = <<>>
    /\ missing_ean_count' = 0
    /\ missing_price_count' = 0
    /\ error_count' = 0
    /\ UNCHANGED <<driverVars, retryVars, outVars, histVars>>

\* _extract_product_details, one iteration of the loop (lines 99-147).
\* price, ean: what the two retry_extraction calls return on this page;
\* raises: one of the three calls of the try body (lines 103, 106, 107)
\* raised, which is before the statistics are updated.
ExtractProduct ==
    /\ UNCHANGED nonOrchVars
    /\ pc = "body"
    /\ phase = "EXTRACTING"
    /\ idx <= Len(product_urls)
    /\ LET url == product_urls[idx] IN
       /\ nav1' = [nav1 EXCEPT ![url] = @ + 1]
       /\ \E price \in PriceOutcomes, ean \in EanOutcomes, raises \in BOOLEAN :
              IF raises
              THEN /\ error_count' = error_count + 1
                   /\ failed_products' = Append(failed_products, url)
                   /\ products_data' = RecordsAfter(products_data, product_data(url, "", ""))
                   /\ UNCHANGED <<missing_ean_count, missing_price_count>>
                   /\ raised1' = raised1 \cup {url}
                   /\ idx' = NextAfterError(idx, Len(product_urls))
              ELSE /\ missing_price_count' =
                        IF ~Truthy(price) THEN missing_price_count + 1
                        ELSE missing_price_count
                   /\ missing_ean_count' =
                        IF ~Truthy(ean) THEN missing_ean_count + 1
                        ELSE missing_ean_count
                   /\ failed_products' =
                        IF MarkForRetry(price, ean)
                        THEN Append(failed_products, url) ELSE failed_products
                   /\ error_count' =
                        IF MarkForRetry(price, ean) /\ IsError(price, ean)
                        THEN error_count + 1 ELSE error_count
                   /\ products_data' = RecordsAfter(products_data, product_data(url, ean, price))
                   /\ raised1' = raised1
                   /\ idx' = idx + 1
    /\ UNCHANGED <<phase, pc, driverVars, product_urls, retryVars, outVars,
                   nav2, raised2, phase1_data, offered>>

\* Lines 149-156 and 60-64: the loop is over, the statistics are returned and
\* the retry pass is entered when there are failed products (lines 167-173).
FinishExtract ==
    /\ UNCHANGED nonOrchVars
    /\ pc = "body"
    /\ phase = "EXTRACTING"
    /\ idx > Len(product_urls)
    /\ phase' = IF ShouldRetry(failed_products) THEN "RETRYING" ELSE "SAVING"
    /\ ridx' = 1
    /\ r_missing_ean' = missing_ean_count
    /\ r_missing_price' = missing_price_count
    /\ phase1_data' = products_data
    /\ UNCHANGED <<pc, driverVars, product_urls, idx, statsVars, outVars,
                   nav1, nav2, raised1, raised2, offered>>

\* _retry_failed_products, one iteration of the loop (lines 175-201).
\* raiseAt: the call of the try body (lines 179, 186, 194) that raised, if
\* any.  The price
\* (EAN) extractor is called only when the field is empty; price and ean say
\* what retry_extraction returns, or would have returned, on this page.
RetryProduct ==
    /\ UNCHANGED nonOrchVars
    /\ pc = "body"
    /\ phase = "RETRYING"
    /\ LET list == RetryList(failed_products, products_data) IN
       /\ ridx <= Len(list)
       /\ LET url == list[ridx]
              k == products_dict_get(products_data, url)
          IN
          /\ nav2' = [nav2 EXCEPT ![url] = @ + 1]
          /\ ridx' = ridx + 1
          /\ \E price \in PriceOutcomes, ean \in EanOutcomes,
                raiseAt \in {"none", "navigate", "price", "ean"} :
              /\ offered' = (/\ k # 0
                             /\ raiseAt = "none"
                             /\ \/ /\ Truthy(products_data[k].price)
                                   /\ Truthy(price)
                                   /\ price # products_data[k].price
                                \/ /\ Truthy(products_data[k].ean)
                                   /\ Truthy(ean)
                                   /\ ean # products_data[k].ean)
              /\ raised2' = IF raiseAt = "none" THEN raised2 ELSE raised2 \cup {url}
              /\ IF k = 0 \/ raiseAt = "navigate"
                 THEN UNCHANGED <<products_data, r_missing_ean, r_missing_price>>
                 ELSE LET product == products_data[k]
                          tryPrice == NeedsRetry(product.price)
                          tryEan == NeedsRetry(product.ean)
                          gotPrice == tryPrice /\ raiseAt # "price" /\ Truthy(price)
                          reachedEan == ~(tryPrice /\ raiseAt = "price")
                          gotEan == reachedEan /\ tryEan /\ raiseAt # "ean" /\ Truthy(ean)
                      IN
                      \* a statement that is not executed cannot raise
                      /\ raiseAt = "price" => tryPrice
                      /\ raiseAt = "ean" => tryEan
                      /\ products_data' = [products_data EXCEPT ![k] =
                            [url |-> product.url,
                             ean |-> IF gotEan THEN ean ELSE product.ean,
                             price |-> IF gotPrice THEN price ELSE product.price]]
                      /\ r_missing_price' =
                            IF gotPrice THEN r_missing_price - 1 ELSE r_missing_price
                      /\ r_missing_ean' =
                            IF gotEan THEN r_missing_ean - 1 ELSE r_missing_ean
    /\ UNCHANGED <<phase, pc, driverVars, product_urls, idx, failed_products,
                   missing_ean_count, missing_price_count, error_count,
                   outVars, nav1, raised1, phase1_data>>

\* Lines 203-205: the retry loop is over, the counters are written back.
FinishRetry ==
    /\ UNCHANGED nonOrchVars
    /\ pc = "body"
    /\ phase = "RETRYING"
    /\ ridx > Len(RetryList(failed_products, products_data))
    /\ missing_ean_count' = r_missing_ean
    /\ missing_price_count' = r_missing_price
    /\ phase' = "SAVING"
    /\ UNCHANGED <<pc, driverVars, product_urls, idx, products_data,
                   failed_products, error_count, retryVars, outVars, histVars>>

\* _print_summary: the counts printed; the success rate is computed only
\* when there are records.
print_summary(data, missing_ean, missing_price, errors) ==
    [emitted |-> TRUE,
     total |-> Len(data),
     missing_ean_count |-> missing_ean,
     missing_price_count |-> missing_price,
     error_count |-> errors,
     success_rate |-> IF Len(data) > 0
                      THEN <<Len(data) - errors, Len(data)>>
                      ELSE <<>>]

\* save_result_to_excel: nothing is written for an empty list.
save_result_to_excel(data) ==
    IF data = <<>> THEN NotWritten ELSE [file |-> TRUE, rows |-> data]

\* Lines 66-68: summary and save; fails: writing the file raised.
Save ==
    /\ UNCHANGED nonOrchVars
    /\ pc = "body"
    /\ phase = "SAVING"
    /\ summary' = print_summary(products_data, missing_ean_count,
                                missing_price_count, error_count)
    /\ handed' = TRUE
    /\ \E fails \in BOOLEAN :
        IF fails
        THEN /\ written' = written
             /\ phase' = "ERROR"
        ELSE /\ written' = save_result_to_excel(products_data)
             /\ phase' = "DONE"
    /\ pc' = "finally"
    /\ UNCHANGED <<driverVars, product_urls, idx, statsVars, retryVars, histVars>>

\* Lines 70-71: one of the calls of the try body before save_result_to_excel
\* (URL resolution, extraction, retry, summary) raised outside the
\* per-product handlers; the handler only prints.
Raise ==
    /\ UNCHANGED nonOrchVars
    /\ pc = "body"
    /\ phase \in {"RESOLVING_URLS", "EXTRACTING", "RETRYING", "SAVING"}
    /\ phase' = "ERROR"
    /\ pc' = "finally"
    /\ UNCHANGED <<driverVars, product_urls, idx, statsVars, retryVars,
                   outVars, histVars>>

\* Lines 72-76: finally: driver.quit(), whose own exception is swallowed;
\* the function then returns.
Quit ==
    /\ UNCHANGED nonOrchVars
    /\ pc = "finally"
    /\ quitCalls' = quitCalls + 1
    /\ session' = "closed"
    /\ \E quit_raises \in BOOLEAN : pc' = "returned"
    /\ UNCHANGED <<phase, product_urls, idx, statsVars, retryVars, outVars,
                   histVars>>

Next ==
    \/ CreateDriver
    \/ ResolveUrls
    \/ ExtractProduct
    \/ FinishExtract
    \/ RetryProduct
    \/ FinishRetry
    \/ Save
    \/ Raise
    \/ Quit

Spec == Init /\ [][Next]_vars

\* Every browser operation returns, so every step that can be taken is taken
\* in the end: the scrape is sequential code without a wait on another party.
SpecFair == Spec /\ WF_vars(Next)

TypeOK ==
    /\ phase \in Phases
    /\ pc \in {"create", "body", "finally", "returned", "raised"}
    /\ session \in {"none", "live", "closed"}
    /\ Len(products_data) <= Len(product_urls)

\* ===================================================== retry_extraction
\* src/browser.py, lines 58-81, step by step.
RwResults == PriceResults \cup EanResults \cup {""}

\* An extraction function, by what it returns on its successive calls (one
\* call more than the largest max_attempts).
RwFunctions == [1..(MaxAttempts + 1) -> RwResults]

RwLoopGoesOn_OffByOne(attempt, max_attempts) == attempt <= max_attempts
\* `for attempt in range(max_attempts):`
RwLoopGoesOn(attempt, max_attempts) == attempt < max_attempts

RwSleepsAfter_EveryFailure(attempt, max_attempts) == TRUE
\* `if attempt < max_attempts - 1:` -- sleep before the next attempt.
RwSleepsAfter(attempt, max_attempts) == attempt < max_attempts - 1

RwInit ==
    /\ rw_pc = "loop"
    /\ rw_f \in RwFunctions
    /\ rw_n \in 0..MaxAttempts
    /\ rw_attempt = 0
    /\ rw_calls = 0
    /\ rw_sleeps = 0
    /\ rw_result = None

\* Lines 75-80: one iteration of the loop.
RwAttempt ==
    /\ UNCHANGED nonRwVars
    /\ rw_pc = "loop"
    /\ RwLoopGoesOn(rw_attempt, rw_n)
    /\ rw_calls' = rw_calls + 1
    /\ LET result == rw_f[rw_attempt + 1] IN
        IF Truthy(result)
        THEN /\ rw_result' = result
             /\ rw_pc' = "done"
             /\ UNCHANGED <<rw_attempt, rw_sleeps>>
        ELSE /\ rw_sleeps' = IF RwSleepsAfter(rw_attempt, rw_n)
                             THEN rw_sleeps + 1 ELSE rw_sleeps
             /\ rw_attempt' = rw_attempt + 1
             /\ UNCHANGED <<rw_result, rw_pc>>
    /\ UNCHANGED <<rw_f, rw_n>>

\* Line 81: the loop is over, `return None`.
RwReturnNone ==
    /\ UNCHANGED nonRwVars
    /\ rw_pc = "loop"
    /\ ~RwLoopGoesOn(rw_attempt, rw_n)
    /\ rw_result' = None
    /\ rw_pc' = "done"
    /\ UNCHANGED <<rw_f, rw_n, rw_attempt, rw_calls, rw_sleeps>>

InitRetry == OrchInit /\ RwInit /\ RxIdle /\ EanIdle /\ PrIdle /\ UcIdle /\ PgIdle /\ CpIdle /\ UpIdle /\ PvIdle /\ MnIdle /\ EqIdle
NextRetry == RwAttempt \/ RwReturnNone
allVars == <<vars, nonOrchVars>>
SpecRetry == InitRetry /\ [][NextRetry]_allVars

\* ================================================================ texts
\* A text is a sequence of one-character strings; <<>> is the empty text
\* and also stands for None where a function returns None or a non-empty
\* text.
IsDigit(c) == c \in {"0", "1", "2", "3", "4", "5", "6", "7", "8", "9"}
IsSpace(c) == c \in {" ", "\t", "\n"}

\* str.upper() on the letters the model uses.
UpperChar(c) ==
    CASE c = "a" -> "A" [] c = "e" -> "E" [] c = "k" -> "K" [] c = "m" -> "M"
      [] c = "n" -> "N" [] c = "r" -> "R" [] c = "x" -> "X" [] OTHER -> c
Upper(t) == [i \in 1..Len(t) |-> UpperChar(t[i])]

\* str.strip().
Strip(t) ==
    LET keep == {i \in 1..Len(t) : ~IsSpace(t[i])}
    IN IF keep = {} THEN <<>>
       ELSE LET lo == CHOOSE i \in keep : \A j \in keep : i <= j
                hi == CHOOSE i \in keep : \A j \in keep : j <= i
            IN SubSeq(t, lo, hi)

\* `'EAN' in t`.
ContainsEAN(t) ==
    \E i \in 1..(Len(t) - 2) : t[i] = "E" /\ t[i + 1] = "A" /\ t[i + 2] = "N"

\* The first d digits of 0871846877..., a run of d digits.
DigitAt(k) == <<"0", "8", "7", "1", "8", "4", "6", "8", "7", "7">>[((k - 1) % 10) + 1]
Digits(d) == [k \in 1..d |-> DigitAt(k)]

\* =================================================== _extract_ean_regex
\* re.search(EAN_PATTERN, text, re.IGNORECASE), src/extractors.py 211-223.
\* The class [:\s\-] of the pattern.
IsSeparator(c) == c = ":" \/ c = "-" \/ IsSpace(c)

\* `EAN` matches at position i, whatever the case.
KeywordAt(text, i) ==
    /\ i + 2 <= Len(text)
    /\ UpperChar(text[i]) = "E"
    /\ UpperChar(text[i + 1]) = "A"
    /\ UpperChar(text[i + 2]) = "N"

\* `[:\s\-]*`, greedy: the first position from j on that is no separator.
RECURSIVE SkipSeparators(_, _)
SkipSeparators(text, j) ==
    IF j <= Len(text) /\ IsSeparator(text[j]) THEN SkipSeparators(text, j + 1) ELSE j

\* Number of digits from position j on, at most `most` (greedy `\d{,most}`).
RECURSIVE DigitRun(_, _, _)
DigitRun(text, j, most) ==
    IF most > 0 /\ j <= Len(text) /\ IsDigit(text[j])
    THEN 1 + DigitRun(text, j + 1, most - 1) ELSE 0

DigitRunMatches_AnyLength(d) == d >= 1
\* `\d{8,14}`: the lower bound of the digit run.
DigitRunMatches(d) == d >= EAN_MIN_DIGITS

\* The group captured by a match that starts at position i, <<>> if none.
\* The separators and the digits are disjoint classes, so giving back
\* separators never produces a match the greedy attempt missed.
MatchAt(text, i) ==
    IF ~KeywordAt(text, i) THEN <<>>
    ELSE LET j == SkipSeparators(text, i + 3)
             d == DigitRun(text, j, EAN_MAX_DIGITS)
         IN IF DigitRunMatches(d) THEN SubSeq(text, j, j + d - 1) ELSE <<>>

\* re.search: the leftmost match; `match.group(1).strip()` or None.
extract_ean_regex(text) ==
    LET hits == {i \in 1..Len(text) : MatchAt(text, i) # <<>>}
    IN IF hits = {} THEN <<>>
       ELSE Strip(MatchAt(text, CHOOSE i \in hits : \A j \in hits : i <= j))

\* The panel texts given to the regex tier: prefix, keyword, separators, a
\* run of d digits, suffix.
RxPrefixes == {<<>>, <<"x", " ">>, <<"E", "A", "N", "-", "1", "2", " ">>}
RxKeywords == {<<"E", "A", "N">>, <<"e", "a", "n">>, <<"E", "a", "n">>, <<"E", "A">>}
RxSeparators ==
    {<<>>, <<":">>, <<":", " ">>, <<"-">>, <<" ", "-", " ">>, <<"\n">>, <<"=">>}
RxSuffixes == {<<>>, <<"x">>}
RxParts ==
    [prefix : RxPrefixes, keyword : RxKeywords, seps : RxSeparators,
     d : 0..MaxDigits, suffix : RxSuffixes]
RxText(parts) ==
    parts.prefix \o parts.keyword \o parts.seps \o Digits(parts.d) \o parts.suffix

RxInit ==
    /\ rx_pc = "call"
    /\ rx_parts \in RxParts
    /\ rx_text = RxText(rx_parts)
    /\ rx_raised = FALSE
    /\ rx_out = <<>>

\* Lines 213-223: the text is read by a script and searched; an exception
\* gives None.
RxSearch ==
    /\ UNCHANGED nonRxVars
    /\ rx_pc = "call"
    /\ \E raises \in BOOLEAN :
        /\ rx_raised' = raises
        /\ rx_out' = IF raises THEN <<>> ELSE extract_ean_regex(rx_text)
    /\ rx_pc' = "done"
    /\ UNCHANGED <<rx_parts, rx_text>>

InitRegex == OrchInit /\ RwIdle /\ RxInit /\ EanIdle /\ PrIdle /\ UcIdle /\ PgIdle /\ CpIdle /\ UpIdle /\ PvIdle /\ MnIdle /\ EqIdle
NextRegex == RxSearch
SpecRegex == InitRegex /\ [][NextRegex]_allVars

\* ====================================================== get_product_ean
\* src/extractors.py 68-223.  What a tier sees of the panel is drawn when
\* the tier runs: the rendered text and the script-read text of a row may
\* differ, and the page changes between the passes.
T_EAN == <<"E", "A", "N">>
DtTexts == {<<>>, <<" ", "e", "a", "n", " ">>, <<"M", "e", "r", "k">>}
DdTexts == {<<" ">>, <<" ">> \o Digits(8) \o <<" ">>, Digits(13), <<"n", "v", "t">>}

\* A row of the panel as a tier sees it; `raises`: locating its title or
\* value, or reading their text, raises.
Rows == [dt : DtTexts, dd : DdTexts, raises : BOOLEAN]
RowLists == UNION {[1..k -> Rows] : k \in 0..MaxRows}
\* What a tier gets from the panel: its rows, or an exception.
TierViews ==
    {[raises |-> TRUE, rows |-> <<>>]}
        \cup {[raises |-> FALSE, rows |-> r] : r \in RowLists}

\* The panel texts the regex tier reads.
PanelTexts ==
    {<<>>,
     <<"M", "e", "r", "k">>,
     T_EAN \o <<":", " ">> \o Digits(13),
     T_EAN \o <<"-">> \o Digits(7)}
PanelViews ==
    {[raises |-> TRUE, text |-> <<>>]}
        \cup {[raises |-> FALSE, text |-> t] : t \in PanelTexts}

\* Lines 168-179: the rows in order; a row that raises is skipped.
RECURSIVE StructuredFrom(_, _)
StructuredFrom(spec_rows, i) ==
    IF i > Len(spec_rows) THEN <<>>
    ELSE LET row == spec_rows[i]
             dt_text == Strip(row.dt)
             ean == Strip(row.dd)
         IN IF ~row.raises /\ dt_text # <<>> /\ ContainsEAN(Upper(dt_text))
               /\ ean # <<>>
            THEN ean
            ELSE StructuredFrom(spec_rows, i + 1)

extract_ean_structured(view) ==
    IF view.raises THEN <<>> ELSE StructuredFrom(view.rows, 1)

\* Lines 188-205: the same scan on the script-read texts.
RECURSIVE JavascriptFrom(_, _)
JavascriptFrom(spec_rows, i) ==
    IF i > Len(spec_rows) THEN <<>>
    ELSE LET row == spec_rows[i]
             dt_text == row.dt
             ean == row.dd
         IN IF ~row.raises /\ dt_text # <<>>
               /\ ContainsEAN(Strip(Upper(dt_text)))
               /\ ean # <<>> /\ Strip(ean) # <<>>
            THEN Strip(ean)
            ELSE JavascriptFrom(spec_rows, i + 1)

extract_ean_javascript(view) ==
    IF view.raises THEN <<>> ELSE JavascriptFrom(view.rows, 1)

\* Lines 213-223 on a view of the panel text.
extract_ean_regex_view(view) ==
    IF view.raises THEN <<>> ELSE extract_ean_regex(view.text)

\* What a tier's run leaves in the log.
RowsRaise(spec_rows) == \E i \in 1..Len(spec_rows) : spec_rows[i].raises
LogEntry(tier, raised, out) ==
    [pass |-> ean_pass, tier |-> tier, handle |-> spec_section, out |-> out,
     raised |-> raised]
RaisedIn(view) ==
    IF view.raises THEN "tier" ELSE IF RowsRaise(view.rows) THEN "row" ELSE "no"

ReturnsEarly_Never(ean) == FALSE
\* `if ean: return ean` after tier 1 and tier 2, lines 153-154 and 158-159.
ReturnsEarly(ean) == ean # <<>>

ExceptionEscapesTier_Propagates(view) == view.raises
\* Every statement of a tier is inside its `try: ... except Exception: pass`.
ExceptionEscapesTier(view) == FALSE

PanelAfterClick_Stale(old) == old
\* Line 128: the panel is located again after the click.
PanelAfterClick(old) == "h2"

\* _extract_ean_from_specs returns ean: lines 87-93 in the first pass, line
\* 131 in the second.
PassReturns(ean) ==
    IF ean_pass = 1 /\ ean = <<>>
    THEN /\ ean_pc' = "showmore"
         /\ UNCHANGED ean_result
    ELSE /\ ean_pc' = "done"
         /\ ean_result' = ean

\* An exception that reaches the handler of get_product_ean (lines 95-97)
\* or of _try_show_more_and_extract (lines 132-133): None is returned.
EanReturnsNone ==
    /\ ean_pc' = "done"
    /\ ean_result' = <<>>

EanInit ==
    /\ ean_pc = "locate"
    /\ ean_pass = 0
    /\ spec_section = "none"
    /\ ean_clicks = 0
    /\ ean_showmore = "untried"
    /\ ean_log = <<>>
    /\ ean_result = <<>>

\* Lines 78-83: wait for the panel, locate it, scroll to it.
EanLocate ==
    /\ UNCHANGED nonEanVars
    /\ ean_pc = "locate"
    /\ \E outcome \in {"ok", "wait_raises", "find_raises", "scroll_raises"} :
        IF outcome = "ok"
        THEN /\ spec_section' = "h1"
             /\ ean_pass' = 1
             /\ ean_pc' = "tier1"
             /\ UNCHANGED ean_result
        ELSE /\ spec_section' = IF outcome = "scroll_raises" THEN "h1" ELSE "none"
             /\ EanReturnsNone
             /\ UNCHANGED ean_pass
    /\ UNCHANGED <<ean_clicks, ean_showmore, ean_log>>

\* Lines 152-154: tier 1.
EanTier1 ==
    /\ UNCHANGED nonEanVars
    /\ ean_pc = "tier1"
    /\ \E view \in TierViews :
        LET ean == extract_ean_structured(view)
        IN /\ ean_log' = Append(ean_log, LogEntry(1, RaisedIn(view), ean))
           /\ IF ExceptionEscapesTier(view) THEN EanReturnsNone
              ELSE IF ReturnsEarly(ean) THEN PassReturns(ean)
              ELSE ean_pc' = "tier2" /\ UNCHANGED ean_result
    /\ UNCHANGED <<ean_pass, spec_section, ean_clicks, ean_showmore>>

\* Lines 157-159: tier 2.
EanTier2 ==
    /\ UNCHANGED nonEanVars
    /\ ean_pc = "tier2"
    /\ \E view \in TierViews :
        LET ean == extract_ean_javascript(view)
        IN /\ ean_log' = Append(ean_log, LogEntry(2, RaisedIn(view), ean))
           /\ IF ExceptionEscapesTier(view) THEN EanReturnsNone
              ELSE IF ReturnsEarly(ean) THEN PassReturns(ean)
              ELSE ean_pc' = "tier3" /\ UNCHANGED ean_result
    /\ UNCHANGED <<ean_pass, spec_section, ean_clicks, ean_showmore>>

\* Line 162: tier 3, whose value is the value of the pass.
EanTier3 ==
    /\ UNCHANGED nonEanVars
    /\ ean_pc = "tier3"
    /\ \E view \in PanelViews :
        LET ean == extract_ean_regex_view(view)
        IN /\ ean_log' = Append(ean_log, LogEntry(3, IF view.raises THEN "tier" ELSE "no", ean))
           /\ IF ExceptionEscapesTier(view) THEN EanReturnsNone
              ELSE PassReturns(ean)
    /\ UNCHANGED <<ean_pass, spec_section, ean_clicks, ean_showmore>>

\* Lines 119-133 (called on line 92): locate the show-more control, scroll to it, click it,
\* locate the panel again and run the second pass.  A click that raises may
\* or may not have reached the page.
EanShowMore ==
    /\ UNCHANGED nonEanVars
    /\ ean_pc = "showmore"
    /\ \E outcome \in {"absent", "scroll_raises", "click_raises",
                        "refind_raises", "ok"} :
        /\ ean_showmore' = outcome
        /\ CASE outcome \in {"absent", "scroll_raises"} ->
                  /\ EanReturnsNone
                  /\ UNCHANGED <<ean_clicks, spec_section, ean_pass>>
             [] outcome = "click_raises" ->
                  /\ EanReturnsNone
                  /\ ean_clicks' \in {ean_clicks, ean_clicks + 1}
                  /\ UNCHANGED <<spec_section, ean_pass>>
             [] outcome = "refind_raises" ->
                  /\ EanReturnsNone
                  /\ ean_clicks' = ean_clicks + 1
                  /\ UNCHANGED <<spec_section, ean_pass>>
             [] outcome = "ok" ->
                  /\ ean_clicks' = ean_clicks + 1
                  /\ spec_section' = PanelAfterClick(spec_section)
                  /\ ean_pass' = ean_pass + 1
                  /\ ean_pc' = "tier1"
                  /\ UNCHANGED ean_result
    /\ UNCHANGED ean_log

InitEan == OrchInit /\ RwIdle /\ RxIdle /\ EanInit /\ PrIdle /\ UcIdle /\ PgIdle /\ CpIdle /\ UpIdle /\ PvIdle /\ MnIdle /\ EqIdle
NextEan == EanLocate \/ EanTier1 \/ EanTier2 \/ EanTier3 \/ EanShowMore
SpecEan == InitEan /\ [][NextEan]_allVars

\* ==================================================== get_product_price
\* src/extractors.py 27-65.
\* re.sub(r'[^\d]', '', text): the digits of the text.
KeepDigits(t) == SelectSeq(t, IsDigit)

DigitValue(c) ==
    CASE c = "0" -> 0 [] c = "1" -> 1 [] c = "2" -> 2 [] c = "3" -> 3
      [] c = "4" -> 4 [] c = "5" -> 5 [] c = "6" -> 6 [] c = "7" -> 7
      [] c = "8" -> 8 [] c = "9" -> 9
RECURSIVE ToNat(_)
ToNat(digits) ==
    IF digits = <<>> THEN 0
    ELSE 10 * ToNat(SubSeq(digits, 1, Len(digits) - 1))
         + DigitValue(digits[Len(digits)])
RECURSIVE DropTrailingZeros(_)
DropTrailingZeros(digits) ==
    IF digits # <<>> /\ digits[Len(digits)] = "0"
    THEN DropTrailingZeros(SubSeq(digits, 1, Len(digits) - 1)) ELSE digits

AllDigits(t) == \A i \in 1..Len(t) : IsDigit(t[i])

\* float(text) accepts the texts `digits.digits` with a digit on at least
\* one side and raises ValueError on the other texts the model builds.
FloatAccepts(text) ==
    \E k \in 1..Len(text) :
        /\ text[k] = "."
        /\ AllDigits(SubSeq(text, 1, k - 1))
        /\ AllDigits(SubSeq(text, k + 1, Len(text)))
        /\ Len(text) >= 2
Float(text) ==
    LET k == CHOOSE i \in 1..Len(text) : text[i] = "."
    IN [ok |-> TRUE,
        whole |-> ToNat(SubSeq(text, 1, k - 1)),
        frac |-> DropTrailingZeros(SubSeq(text, k + 1, Len(text)))]

\* The leading text node of the price element, and the text of the fraction
\* element.
MainTexts ==
    {<<>>, <<"1", "2">>, <<"8">>, <<"0">>, <<"x">>,
     <<"1", ".", "2", "9", "9">>}
FractionTexts ==
    {<<>>, <<" ">>, <<"9", "9">>, <<" ", "9", "9", " ">>, <<"5">>,
     <<"0", "0">>, <<"-">>}

\* element: how locating the price element goes; main: its leading text or
\* an exception of the script; fraction: the fraction element.
PricePages ==
    [element : {"present", "wait_raises", "find_raises"},
     main : [raises : BOOLEAN, text : MainTexts],
     fraction : [present : BOOLEAN, raises : BOOLEAN, text : FractionTexts]]

MainMissing_Never(price_main) == FALSE
\* `if not price_main: return None`, lines 49-50.
MainMissing(price_main) == price_main = <<>>
FractionUsed_Never(price_fraction) == FALSE
\* `if price_fraction:`, line 56.
FractionUsed(price_fraction) == price_fraction # <<>>

\* Lines 37-65.
get_product_price(page) ==
    IF page.element # "present" \/ page.main.raises THEN PriceNone
    ELSE LET price_main == KeepDigits(Strip(page.main.text))
             price_fraction == Strip(page.fraction.text)
             with_fraction == price_main \o <<".">> \o price_fraction
             without == price_main \o <<".", "0", "0">>
         IN IF MainMissing(price_main) THEN PriceNone
            ELSE IF /\ page.fraction.present
                    /\ ~page.fraction.raises
                    /\ FractionUsed(price_fraction)
                    /\ FloatAccepts(with_fraction)
                 THEN Float(with_fraction)
                 ELSE IF FloatAccepts(without) THEN Float(without) ELSE PriceNone

PrInit ==
    /\ pr_pc = "call"
    /\ pr_page \in PricePages
    /\ pr_result = PriceNone

PrExtract ==
    /\ UNCHANGED nonPrVars
    /\ pr_pc = "call"
    /\ pr_result' = get_product_price(pr_page)
    /\ pr_pc' = "done"
    /\ UNCHANGED pr_page

InitPrice == OrchInit /\ RwIdle /\ RxIdle /\ EanIdle /\ PrInit /\ UcIdle /\ PgIdle /\ CpIdle /\ UpIdle /\ PvIdle /\ MnIdle /\ EqIdle
NextPrice == PrExtract
SpecPrice == InitPrice /\ [][NextPrice]_allVars

\* =================================== extract_product_urls_from_category
\* src/url_extractor.py 136-196.  A listing page is named by its number;
\* page_urls is <<1, ..., total_pages>> and the category URL is the URL of
\* page 1 (line 44).
Min(a, b) == IF a <= b THEN a ELSE b
Max(a, b) == IF a >= b THEN a ELSE b

\* seq[lo:hi] of Python: a negative index counts from the end, and indices
\* beyond the ends are clamped.
PySlice(seq, lo, hi) ==
    LET n == Len(seq)
        norm(i) == IF i < 0 THEN Max(i + n, 0) ELSE Min(i, n)
    IN IF norm(lo) < norm(hi) THEN SubSeq(seq, norm(lo) + 1, norm(hi)) ELSE <<>>

PageUrls(total) == [k \in 1..total |-> k]
ProductLinks == {"p1", "p2"}

\* list(a_set): the elements in some order.
ListsOf(S) ==
    {q \in UNION {[1..k -> S] : k \in {Cardinality(S)}} :
        \A i, j \in 1..Len(q) : i # j => q[i] # q[j]}

StartPage_MinForMax(start_page) == Min(1, start_page)
\* Line 173.
StartPage(start_page) == Max(1, start_page)

EndPage_OffByOne(start_page, max_pages, total) ==
    IF max_pages.unbounded THEN total ELSE Min(start_page + max_pages.n, total)
\* Line 178.
EndPage(start_page, max_pages, total) ==
    IF max_pages.unbounded THEN total
    ELSE Min(start_page + max_pages.n - 1, total)

PagesToProcess_FromFirst(page_urls, start_page, max_pages) ==
    LET total == Len(page_urls)
        start == StartPage(start_page)
    IN IF start > total THEN <<>>
       ELSE PySlice(page_urls, 0, EndPage(start, max_pages, total))
\* Lines 173-179: the pages handed to the per-page collector.
PagesToProcess(page_urls, start_page, max_pages) ==
    LET total == Len(page_urls)
        start == StartPage(start_page)
    IN IF start > total THEN <<>>
       ELSE PySlice(page_urls, start - 1, EndPage(start, max_pages, total))

\* What extract_product_urls returns for a page: line 129.
PageResults == UNION {ListsOf(S) : S \in SUBSET ProductLinks}

CategoryLoadFails_OnlyOnTimeout(outcome) == outcome = "wait_raises"
\* Lines 161-165: navigate_to_page returned False, or wait.until raised.
CategoryLoadFails(outcome) == outcome # "ok"

AfterPage_DiscardOnFailure(all, page_product_urls, failed) ==
    IF failed THEN {} ELSE all \cup SeqToSet(page_product_urls)
\* `all_product_urls.update(page_product_urls)`, line 188.
AfterPage(all, page_product_urls, failed) == all \cup SeqToSet(page_product_urls)

UcInit ==
    /\ uc_pc = "load"
    /\ uc_site_pages \in 1..MaxPages
    /\ uc_start_page \in 0..(MaxPages + 1)
    /\ uc_max_pages \in {Unbounded} \cup {Pages(n) : n \in (-1)..MaxPages}
    /\ total_pages = -1
    /\ end_page = -1
    /\ page_urls_to_process = <<>>
    /\ uc_i = 0
    /\ all_product_urls = {}
    /\ uc_nav = <<>>
    /\ uc_load = "untried"
    /\ uc_discovered = <<>>
    /\ uc_failed = {}
    /\ uc_result = <<>>

\* Lines 158-181: load the category URL, wait for a product link, read the
\* pagination (all pages, or only the current one or none when reading it
\* fails) and select the pages.
UcLoad ==
    /\ UNCHANGED nonUcVars
    /\ uc_pc = "load"
    /\ uc_nav' = Append(uc_nav, [by |-> "category", page |-> 1])
    /\ \E outcome \in {"navigate_fails", "wait_raises", "ok"} :
        /\ uc_load' = outcome
        /\ IF CategoryLoadFails(outcome)
           THEN /\ uc_pc' = "done"
                /\ uc_result' = <<>>
                /\ UNCHANGED <<total_pages, end_page, page_urls_to_process, uc_i>>
           ELSE \E total \in {uc_site_pages, 1, 0} :
                LET page_urls == PageUrls(total)
                    start_page == StartPage(uc_start_page)
                IN /\ total_pages' = total
                   /\ IF start_page > total
                      THEN end_page' = end_page
                      ELSE end_page' = EndPage(start_page, uc_max_pages, total)
                   /\ page_urls_to_process' =
                          PagesToProcess(page_urls, uc_start_page, uc_max_pages)
                   /\ IF start_page > total
                      THEN uc_pc' = "done" /\ uc_result' = <<>> /\ uc_i' = uc_i
                      ELSE uc_pc' = "pages" /\ uc_i' = 1 /\ uc_result' = uc_result
    /\ UNCHANGED <<uc_site_pages, uc_start_page, uc_max_pages,
                   all_product_urls, uc_discovered, uc_failed>>

\* Lines 184-190: one page through extract_product_urls, which returns the
\* product URLs it found, without duplicates, in page order, or [] when the
\* page does not load, no link appears in time or an exception is raised.
UcPage ==
    /\ UNCHANGED nonUcVars
    /\ uc_pc = "pages"
    /\ uc_i <= Len(page_urls_to_process)
    /\ uc_nav' = Append(uc_nav, [by |-> "collector",
                                  page |-> page_urls_to_process[uc_i]])
    /\ \E failed \in BOOLEAN, found \in PageResults :
        LET page_product_urls == IF failed THEN <<>> ELSE found
        IN /\ all_product_urls' =
                 AfterPage(all_product_urls, page_product_urls, failed)
           /\ uc_discovered' =
                 uc_discovered \o
                     SelectSeq(page_product_urls,
                               LAMBDA u : u \notin SeqToSet(uc_discovered))
           /\ uc_failed' = IF failed THEN uc_failed \cup {page_urls_to_process[uc_i]}
                           ELSE uc_failed
    /\ uc_i' = uc_i + 1
    /\ UNCHANGED <<uc_pc, uc_site_pages, uc_start_page, uc_max_pages,
                   total_pages, end_page, page_urls_to_process, uc_load,
                   uc_result>>

\* Line 192.
UcReturn ==
    /\ UNCHANGED nonUcVars
    /\ uc_pc = "pages"
    /\ uc_i > Len(page_urls_to_process)
    /\ uc_result' \in ListsOf(all_product_urls)
    /\ uc_pc' = "done"
    /\ UNCHANGED <<uc_site_pages, uc_start_page, uc_max_pages, total_pages,
                   end_page, page_urls_to_process, uc_i, all_product_urls,
                   uc_nav, uc_load, uc_discovered, uc_failed>>

InitUrls == OrchInit /\ RwIdle /\ RxIdle /\ EanIdle /\ PrIdle /\ UcInit /\ PgIdle /\ CpIdle /\ UpIdle /\ PvIdle /\ MnIdle /\ EqIdle
NextUrls == UcLoad \/ UcPage \/ UcReturn
SpecUrls == InitUrls /\ [][NextUrls]_allVars

\* ============================= extract_all_page_urls_from_pagination
\* src/url_extractor.py 22-90.  A URL is a path and a query string: none,
\* `page=n`, or some other query.
NoQuery == [kind |-> "none", n |-> 0]
PageQuery(num) == [kind |-> "page", n |-> num]
OtherQuery == [kind |-> "other", n |-> 0]
Url(path, query) == [path |-> path, query |-> query]

\* `current_url.split('?')[0]`, lines 38 and 52.
StripQuery(url) == Url(url.path, NoQuery)
\* `f"{base_url}?page={num}"`, line 45.
WithPage(base_url, num) == Url(base_url.path, PageQuery(num))

\* An <li> of the pagination control: without a link or href ("none"), with
\* a link whose href has no `?page=` ("other"), with `?page=` followed by
\* something int() rejects ("unparsable"), or with `?page=n`.
LiElements ==
    {[link |-> "none", n |-> 0], [link |-> "other", n |-> 0],
     [link |-> "unparsable", n |-> 0]}
        \cup {[link |-> "page", n |-> k] : k \in 0..MaxPageNo}
\* The control: not found (lines 71-73 raise), or its items in order.
Controls ==
    {[found |-> FALSE, items |-> <<>>]}
        \cup {[found |-> TRUE, items |-> its] :
                 its \in UNION {[1..k -> LiElements] : k \in 0..MaxItems}}

ListingPages ==
    [loaded : {TRUE},
     current_url : {Url("cat", NoQuery), Url("cat", PageQuery(2)),
                    Url("cat", OtherQuery)},
     read_raises : BOOLEAN,       \* driver.current_url raises on line 37
     reread_raises : BOOLEAN,     \* and on line 51
     control : Controls]

\* Lines 77-86: the items from last to first; the first `?page=n` that
\* int() accepts is returned.
RECURSIVE ScanReversed(_, _)
ScanReversed(li_elements, i) ==
    IF i = 0 THEN 1
    ELSE IF li_elements[i].link = "page" THEN li_elements[i].n
         ELSE ScanReversed(li_elements, i - 1)

\* Lines 70-90.
get_max_page_number(control) ==
    IF ~control.found THEN 1 ELSE ScanReversed(control.items, Len(control.items))

LastGenerated_OffByOne(max_page) == max_page - 1
\* `range(2, max_page + 1)`, line 45: the last page number generated.
LastGenerated(max_page) == max_page

\* Lines 44-45.
GeneratedUrls(base_url, max_page) ==
    <<base_url>> \o [k \in 1..(LastGenerated(max_page) - 1) |-> WithPage(base_url, k + 1)]

Fallback_None(page_urls, base_url) == page_urls
\* Lines 52-54: the current page is returned at least.
Fallback(page_urls, base_url) ==
    IF \A k \in 1..Len(page_urls) : page_urls[k] # base_url
    THEN Append(page_urls, base_url) ELSE page_urls

\* Lines 35-58.
extract_all_page_urls_from_pagination(page) ==
    IF ~page.read_raises
    THEN GeneratedUrls(StripQuery(page.current_url),
                       get_max_page_number(page.control))
    ELSE IF page.reread_raises THEN <<>>
         ELSE Fallback(<<>>, StripQuery(page.current_url))

PgInit ==
    /\ pg_pc = "call"
    /\ pg_page \in ListingPages
    /\ pg_max_page = -1
    /\ pg_urls = <<>>

PgResolve ==
    /\ UNCHANGED nonPgVars
    /\ pg_pc = "call"
    /\ pg_max_page' =
          IF pg_page.read_raises THEN -1 ELSE get_max_page_number(pg_page.control)
    /\ pg_urls' = extract_all_page_urls_from_pagination(pg_page)
    /\ pg_pc' = "done"
    /\ UNCHANGED pg_page

InitPagination == OrchInit /\ RwIdle /\ RxIdle /\ EanIdle /\ PrIdle /\ UcIdle /\ PgInit /\ CpIdle /\ UpIdle /\ PvIdle /\ MnIdle /\ EqIdle
NextPagination == PgResolve
SpecPagination == InitPagination /\ [][NextPagination]_allVars

\* ================================================ extract_product_urls
\* src/url_extractor.py 93-133.  A link element: its href cannot be read
\* ("raises"), is empty ("none"), or is a URL, of which the model keeps
\* whether it contains the product path, the category path and a query.
Href(id, product, category, query) ==
    [kind |-> "url", id |-> id, product |-> product, category |-> category,
     query |-> query]
LinkElements ==
    {[kind |-> "raises", id |-> "", product |-> FALSE, category |-> FALSE,
      query |-> FALSE],
     [kind |-> "none", id |-> "", product |-> FALSE, category |-> FALSE,
      query |-> FALSE],
     Href("A", TRUE, FALSE, FALSE), Href("A", TRUE, FALSE, TRUE),
     Href("B", TRUE, FALSE, FALSE), Href("C", TRUE, FALSE, FALSE),
     Href("L", FALSE, TRUE, FALSE), Href("X", TRUE, TRUE, FALSE)}
LinkLists == UNION {[1..k -> LinkElements] : k \in 0..MaxLinks}

\* Lines 119-120: `urljoin(...)` and `.split('?')[0]`.
CleanUrl(link) == [link EXCEPT !.query = FALSE]
\* Lines 117-123.
Accepted(link) == link.kind = "url" /\ link.product /\ ~link.category

\* Lines 115-126: the clean URLs of the accepted links, in page order.
RECURSIVE ProductUrlsFrom(_, _)
ProductUrlsFrom(product_links, i) ==
    IF i > Len(product_links) THEN <<>>
    ELSE IF Accepted(product_links[i])
         THEN <<CleanUrl(product_links[i])>> \o ProductUrlsFrom(product_links, i + 1)
         ELSE ProductUrlsFrom(product_links, i + 1)

Contains(seq, x) == \E k \in 1..Len(seq) : seq[k] = x

RECURSIVE FromKeys_KeepLast(_)
FromKeys_KeepLast(seq) ==
    IF seq = <<>> THEN <<>>
    ELSE IF Contains(Tail(seq), Head(seq)) THEN FromKeys_KeepLast(Tail(seq))
         ELSE <<Head(seq)>> \o FromKeys_KeepLast(Tail(seq))
\* `list(dict.fromkeys(product_urls))`, line 129: a key keeps the place of
\* its first insertion.
RECURSIVE FromKeys(_)
FromKeys(seq) ==
    IF seq = <<>> THEN <<>>
    ELSE LET front == FromKeys(SubSeq(seq, 1, Len(seq) - 1))
             last == seq[Len(seq)]
         IN IF Contains(front, last) THEN front ELSE Append(front, last)

\* `if not navigate_to_page(driver, page_url): return []`, lines 106-107.
ReturnsOnFailedLoad(loaded) == ~loaded

CpInit ==
    /\ cp_pc = "call"
    /\ cp_links \in LinkLists
    /\ cp_nav = "untried"
    /\ cp_scanned = FALSE
    /\ cp_result = <<>>

\* Lines 104-133.
CpExtract ==
    /\ UNCHANGED nonCpVars
    /\ cp_pc = "call"
    /\ \E loaded \in BOOLEAN, rest \in {"ok", "wait_raises", "find_raises"} :
        /\ cp_nav' = IF loaded THEN "ok" ELSE "failed"
        /\ IF ReturnsOnFailedLoad(loaded)
           THEN cp_scanned' = FALSE /\ cp_result' = <<>>
           ELSE /\ cp_scanned' = TRUE
                /\ cp_result' = IF rest = "ok"
                                THEN FromKeys(ProductUrlsFrom(cp_links, 1))
                                ELSE <<>>
    /\ cp_pc' = "done"
    /\ UNCHANGED cp_links

InitCollect == OrchInit /\ RwIdle /\ RxIdle /\ EanIdle /\ PrIdle /\ UcIdle /\ PgIdle /\ CpInit /\ UpIdle /\ PvIdle /\ MnIdle /\ EqIdle
NextCollect == CpExtract
SpecCollect == InitCollect /\ [][NextCollect]_allVars

\* ============================================= update_missing_ean_codes
\* src/file_handler.py, lines 35-107.  A cell of the EAN column is a text,
\* as `astype(str)` gives it: "nan" for an empty cell.
EanCells == {<<>>, <<" ">>, <<"n", "a", "n">>, <<"N", "o", "n", "e">>, Digits(13)}
EanColumns == UNION {[1..n -> EanCells] : n \in 0..MaxFileRows}

\* Line 47: `.astype(str).replace('nan', '').replace('None', '')`.
Normalised(cell) ==
    IF cell \in {<<"n", "a", "n">>, <<"N", "o", "n", "e">>} THEN <<>> ELSE cell

\* Lines 50-54: the mask of the rows with a missing EAN.
IsMissing(cell) == cell = <<>> \/ Strip(cell) = <<>>

\* The index of missing_ean_df, in row order (line 55).
RECURSIVE MissingFrom(_, _)
MissingFrom(df, i) ==
    IF i > Len(df) THEN <<>>
    ELSE IF IsMissing(df[i]) THEN <<i>> \o MissingFrom(df, i + 1)
    ELSE MissingFrom(df, i + 1)

\* `if updated_count > 0:`, line 96.
WritesBack(count) == count > 0

UpInit ==
    /\ up_pc = "read"
    /\ up_file \in EanColumns
    /\ up_df = <<>>
    /\ up_missing = <<>>
    /\ up_i = 1
    /\ up_session = "none"
    /\ updated_count = 0
    /\ up_updated = {}
    /\ up_written = "no"

\* Lines 43-59: the file is read (an exception goes to the handlers of lines
\* 104-107, which print), the rows with a missing EAN are selected and the
\* function returns when there is none.
UpRead ==
    /\ UNCHANGED nonUpVars
    /\ up_pc = "read"
    /\ \E outcome \in {"ok", "not_found", "raises"} :
        IF outcome = "ok"
        THEN LET df == [i \in 1..Len(up_file) |-> Normalised(up_file[i])] IN
             /\ up_df' = df
             /\ up_missing' = MissingFrom(df, 1)
             /\ up_pc' = IF Len(MissingFrom(df, 1)) = 0 THEN "done" ELSE "create"
        ELSE /\ up_pc' = "done"
             /\ UNCHANGED <<up_df, up_missing>>
    /\ UNCHANGED <<up_file, up_i, up_session, updated_count, up_updated, up_written>>

\* Lines 65-66: create_driver() (src/browser.py, lines 19-34) runs before the
\* inner try: uc.Chrome(...) may raise (no session exists), and so may the
\* configuration that follows it (the session exists); the exception goes
\* to the handler of line 106.
UpCreateDriver ==
    /\ UNCHANGED nonUpVars
    /\ up_pc = "create"
    /\ \E outcome \in {"ok", "chrome_raises", "configure_raises"} :
        /\ up_session' = IF outcome = "chrome_raises" THEN "none" ELSE "live"
        /\ up_pc' = IF outcome = "ok" THEN "loop" ELSE "done"
    /\ UNCHANGED <<up_file, up_df, up_missing, up_i, updated_count, up_updated,
                   up_written>>

\* Lines 69-87: one row of missing_ean_df; an exception of the navigation or
\* of the extraction is printed by the handler of line 86.
UpRow ==
    /\ UNCHANGED nonUpVars
    /\ up_pc = "loop"
    /\ up_i <= Len(up_missing)
    /\ LET row == up_missing[up_i] IN
       \E raises \in BOOLEAN, ean \in {<<>>, Digits(EAN_MIN_DIGITS)} :
           IF ~raises /\ ean # <<>>
           THEN /\ up_df' = [up_df EXCEPT ![row] = ean]
                /\ updated_count' = updated_count + 1
                /\ up_updated' = up_updated \cup {row}
           ELSE UNCHANGED <<up_df, updated_count, up_updated>>
    /\ up_i' = up_i + 1
    /\ UNCHANGED <<up_pc, up_file, up_missing, up_session, up_written>>

\* Lines 89-93: finally: driver.quit(), whose own exception is swallowed.
UpQuit ==
    /\ UNCHANGED nonUpVars
    /\ up_pc = "loop"
    /\ up_i > Len(up_missing)
    /\ up_session' = "closed"
    /\ \E quit_raises \in BOOLEAN : up_pc' = "save"
    /\ UNCHANGED <<up_file, up_df, up_missing, up_i, updated_count, up_updated,
                   up_written>>

\* Lines 96-102: the file is written back when a row was updated; an
\* exception of to_excel goes to the handler of line 106.
UpSave ==
    /\ UNCHANGED nonUpVars
    /\ up_pc = "save"
    /\ IF WritesBack(updated_count)
       THEN \E fails \in BOOLEAN :
               /\ up_written' = IF fails THEN "failed" ELSE "yes"
               /\ up_file' = IF fails THEN up_file ELSE up_df
       ELSE UNCHANGED <<up_written, up_file>>
    /\ up_pc' = "done"
    /\ UNCHANGED <<up_df, up_missing, up_i, up_session, updated_count, up_updated>>

InitUpdate == OrchInit /\ RwIdle /\ RxIdle /\ EanIdle /\ PrIdle /\ UcIdle /\ PgIdle /\ CpIdle /\ UpInit /\ PvIdle /\ MnIdle /\ EqIdle
NextUpdate == UpRead \/ UpCreateDriver \/ UpRow \/ UpQuit \/ UpSave
SpecUpdate == InitUpdate /\ [][NextUpdate]_allVars

\* ======================================================= a product visit
\* One iteration of the loop of _extract_product_details (src/scraper.py,
\* lines 102-147) or of _retry_failed_products (lines 178-201), call by
\* call.  The retry pass visits the URLs of failed_products, whose records
\* have an empty field (lines 120-121, 140-146); products_dict holds a
\* record for each of them.
PvRecords ==
    {r \in [price : {""} \cup PRICES, ean : {""} \cup EANS] :
        r.price = "" \/ r.ean = ""}

ProceedsAfter_OnlyIfLoaded(loaded) == loaded
\* `navigate_to_page(driver, product_url)`, lines 103 and 179: the value
\* returned is not used, the extraction calls follow in every case.
ProceedsAfter(loaded) == TRUE

\* What navigate_to_page returns (src/browser.py, lines 50 and 55), as the
\* history keeps it.
Reported(loaded) == IF loaded THEN "ok" ELSE "failed"

Extracts_Always(pass, field) == TRUE
\* Lines 106-107: both fields are extracted; lines 184 and 192: the fields
\* that are empty.
Extracts(pass, field) == pass = 1 \/ NeedsRetry(field)

PvInit ==
    /\ pv_pc = "navigate"
    /\ \/ pv_pass = 1 /\ pv_record = NoFields
       \/ pv_pass = 2 /\ pv_record \in PvRecords
    /\ pv_start = pv_record
    /\ pv_nav = "untried"
    /\ pv_calls = <<>>
    /\ pv_raised = FALSE

\* Lines 103 and 179: navigate_to_page catches what driver.get raises and
\* returns False (src/browser.py, lines 51-55).
PvNavigate ==
    /\ UNCHANGED nonPvVars
    /\ pv_pc = "navigate"
    /\ \E loaded \in BOOLEAN :
        /\ pv_nav' = Reported(loaded)
        /\ pv_pc' = IF ProceedsAfter(loaded) THEN "price" ELSE "done"
    /\ UNCHANGED <<pv_pass, pv_start, pv_record, pv_calls, pv_raised>>

\* Lines 106 and 184-189: the price; an exception ends the visit in the
\* handler (lines 137-147: the record has empty fields; lines 200-201).
PvPrice ==
    /\ UNCHANGED nonPvVars
    /\ pv_pc = "price"
    /\ IF Extracts(pv_pass, pv_record.price)
       THEN /\ pv_calls' = Append(pv_calls, "price")
            /\ \E raises \in BOOLEAN, price \in PriceOutcomes :
                IF raises
                THEN /\ pv_raised' = TRUE
                     /\ pv_pc' = "done"
                     /\ UNCHANGED pv_record
                ELSE /\ pv_record' =
                        IF Truthy(price) THEN [pv_record EXCEPT !.price = price]
                        ELSE pv_record
                     /\ pv_pc' = "ean"
                     /\ UNCHANGED pv_raised
       ELSE /\ pv_pc' = "ean"
            /\ UNCHANGED <<pv_record, pv_calls, pv_raised>>
    /\ UNCHANGED <<pv_pass, pv_start, pv_nav>>

\* Lines 107 and 192-197: the EAN; in the first pass an exception leaves a
\* record with both fields empty (lines 140-146).
PvEan ==
    /\ UNCHANGED nonPvVars
    /\ pv_pc = "ean"
    /\ IF Extracts(pv_pass, pv_record.ean)
       THEN /\ pv_calls' = Append(pv_calls, "ean")
            /\ \E raises \in BOOLEAN, ean \in EanOutcomes :
                IF raises
                THEN /\ pv_raised' = TRUE
                     /\ pv_record' = IF pv_pass = 1 THEN NoFields ELSE pv_record
                ELSE /\ pv_record' =
                        IF Truthy(ean) THEN [pv_record EXCEPT !.ean = ean]
                        ELSE pv_record
                     /\ UNCHANGED pv_raised
       ELSE UNCHANGED <<pv_record, pv_calls, pv_raised>>
    /\ pv_pc' = "done"
    /\ UNCHANGED <<pv_pass, pv_start, pv_nav>>

InitVisit == OrchInit /\ RwIdle /\ RxIdle /\ EanIdle /\ PrIdle /\ UcIdle /\ PgIdle /\ CpIdle /\ UpIdle /\ PvInit /\ MnIdle /\ EqIdle
NextVisit == PvNavigate \/ PvPrice \/ PvEan
SpecVisit == InitVisit /\ [][NextVisit]_allVars

\* ======================================== the callers of navigate_to_page
\* navigate_to_page (src/browser.py, lines 37-55) is called for a product
\* page by both passes of the scraper (src/scraper.py, lines 103 and 179),
\* for a listing page by extract_product_urls (src/url_extractor.py, line
\* 106) and for the category page by extract_product_urls_from_category
\* (line 161).  A behaviour of this specification is a run of one of the
\* three callers.
NavigateCallers ==
    \/ PvInit /\ UcIdle /\ CpIdle
    \/ PvIdle /\ UcInit /\ CpIdle
    \/ PvIdle /\ UcIdle /\ CpInit

InitNavigate == OrchInit /\ RwIdle /\ RxIdle /\ EanIdle /\ PrIdle /\ PgIdle /\ UpIdle /\ NavigateCallers /\ MnIdle /\ EqIdle

NextNavigate ==
    \/ NextVisit
    \/ NextUrls
    \/ NextCollect

SpecNavigate == InitNavigate /\ [][NextNavigate]_allVars

\* ================================================================= main
\* src/main.py, lines 47-78: scrape_category_products is called for each
\* category URL in turn (for the one hardcoded URL when CATEGORY_URLS is
\* empty).  A run of scrape_category_products is taken by its steps on the
\* session: create_driver (src/scraper.py, line 36), the try body with its
\* handler (lines 39-71), the finally (lines 72-76).
AfterCreateRaises_NextCategory == "loop"
\* create_driver() is called outside the try of scrape_category_products and
\* the call of lines 62-67 is in no try: the exception ends the program.
AfterCreateRaises == "crashed"

MnInit ==
    /\ mn_pc = "loop"
    /\ mn_categories \in 1..MaxCategories
    /\ mn_i = 0
    /\ mn_sessions = <<>>
    /\ mn_ended = <<>>

\* Line 49: the next category URL, or the end of the list.
MnLoop ==
    /\ UNCHANGED nonMnVars
    /\ mn_pc = "loop"
    /\ IF mn_i < mn_categories
       THEN /\ mn_i' = mn_i + 1
            /\ mn_pc' = "create"
       ELSE /\ mn_pc' = "exit"
            /\ UNCHANGED mn_i
    /\ UNCHANGED <<mn_categories, mn_sessions, mn_ended>>

\* src/scraper.py, line 36: uc.Chrome(...) may raise (no session exists), and
\* so may the configuration that follows it (the session exists).
MnCreateDriver ==
    /\ UNCHANGED nonMnVars
    /\ mn_pc = "create"
    /\ \E outcome \in {"ok", "chrome_raises", "configure_raises"} :
        /\ mn_sessions' = Append(mn_sessions,
                IF outcome = "chrome_raises" THEN "none" ELSE "live")
        /\ mn_pc' = IF outcome = "ok" THEN "body" ELSE AfterCreateRaises
        /\ mn_ended' = IF outcome = "ok" THEN mn_ended ELSE Append(mn_ended, "raised")
    /\ UNCHANGED <<mn_categories, mn_i>>

\* src/scraper.py, lines 39-71: the body ends by a return (DONE) or in the
\* handler (ERROR).
MnBody ==
    /\ UNCHANGED nonMnVars
    /\ mn_pc = "body"
    /\ \E end \in {"DONE", "ERROR"} : mn_ended' = Append(mn_ended, end)
    /\ mn_pc' = "finally"
    /\ UNCHANGED <<mn_categories, mn_i, mn_sessions>>

\* src/scraper.py, lines 72-76: driver.quit(), whose exception is swallowed;
\* the function returns to the loop of main.
MnQuit ==
    /\ UNCHANGED nonMnVars
    /\ mn_pc = "finally"
    /\ mn_sessions' = [mn_sessions EXCEPT ![mn_i] = "closed"]
    /\ \E quit_raises \in BOOLEAN : mn_pc' = "loop"
    /\ UNCHANGED <<mn_categories, mn_i, mn_ended>>

InitMain == OrchInit /\ RwIdle /\ RxIdle /\ EanIdle /\ PrIdle /\ UcIdle /\ PgIdle /\ CpIdle /\ UpIdle /\ PvIdle /\ MnInit /\ EqIdle
NextMain == MnLoop \/ MnCreateDriver \/ MnBody \/ MnQuit
SpecMain == InitMain /\ [][NextMain]_allVars

\* ================================== url_extractor.py and final.py compared
\* The URL resolution of src/final.py (lines 35-86 and 319-383), and the two
\* pipelines run on the same category: the same listing page, the same
\* start_page and max_pages, the same outcome of every navigation.

\* final.py, lines 58-68: the items from last to first; the first `?page=n`
\* that int() accepts ends the loop.  max_page is 1 at first (line 54).
RECURSIVE FinalScanReversed(_, _)
FinalScanReversed(li_elements, i) ==
    IF i = 0 THEN 1
    ELSE IF li_elements[i].link = "page" THEN li_elements[i].n
         ELSE FinalScanReversed(li_elements, i - 1)

\* final.py, lines 71-73.
FinalGeneratedUrls(base_url, max_page) ==
    <<base_url>> \o [k \in 1..(max_page - 1) |-> WithPage(base_url, k + 1)]

\* final.py, lines 42-86: the control is looked up inside the outer try, so
\* a control that is not found leads to the fallback of lines 75-84, which
\* reads the current URL again.
FinalFallsBack(page) == page.read_raises \/ ~page.control.found

final_extract_all_page_urls_from_pagination(page) ==
    IF ~FinalFallsBack(page)
    THEN FinalGeneratedUrls(StripQuery(page.current_url),
                            FinalScanReversed(page.control.items,
                                              Len(page.control.items)))
    ELSE IF page.reread_raises THEN <<>>
         ELSE <<StripQuery(page.current_url)>>

FinalStartPage_Unchecked(start_page) == start_page
\* final.py, lines 346-347: `if start_page < 1: start_page = 1`.
FinalStartPage(start_page) == IF start_page < 1 THEN 1 ELSE start_page

\* final.py, lines 352-359.
FinalEndPage(start_page, max_pages, total) ==
    IF max_pages.unbounded THEN total
    ELSE Min(start_page + max_pages.n - 1, total)

\* final.py, lines 346-362.
FinalPagesToProcess(page_urls, start_page, max_pages) ==
    LET total == Len(page_urls)
        start == FinalStartPage(start_page)
    IN IF start > total THEN <<>>
       ELSE PySlice(page_urls, start - 1, FinalEndPage(start, max_pages, total))

\* final.py, lines 337-339: driver.get or wait.until raised (lines 381-383).
FinalCategoryLoadFails(outcome) == outcome \in {"navigate_fails", "wait_raises"}

\* The listing page a page URL names.
PageIndex(url) == IF url.query.kind = "page" THEN url.query.n ELSE 1

\* What a listing page gives to extract_product_urls, in either file: its
\* product URLs, none when the navigation or the wait failed
\* (url_extractor.py 93-133, final.py 273-316).
SitePages == [1..MaxPageNo -> SUBSET ProductLinks]

\* url_extractor.py 184-192, final.py 366-379: the union over the pages.
Collected(selected, site) ==
    UNION {site[PageIndex(selected[k])] : k \in 1..Len(selected)}

EqInit ==
    /\ eq_pc = "load"
    /\ eq_load = "untried"
    /\ eq_reread = FALSE
    /\ eq_start_page = 1
    /\ eq_max_pages = [unbounded |-> TRUE, n |-> 0]
    /\ eq_mod = NoRun
    /\ eq_fin = NoRun

\* url_extractor.py 161-165, final.py 337-339: the category page is loaded.
EqLoad ==
    /\ UNCHANGED nonEqVars
    /\ eq_pc = "load"
    /\ \E outcome \in {"ok", "navigate_fails", "wait_raises"} :
        /\ eq_load' = outcome
        /\ eq_pc' = IF CategoryLoadFails(outcome) /\ FinalCategoryLoadFails(outcome)
                    THEN "done" ELSE "resolve"
    /\ UNCHANGED <<eq_reread, eq_start_page, eq_max_pages, eq_mod, eq_fin>>

\* url_extractor.py 168, final.py 341: the listing pages are resolved.
EqResolve ==
    /\ UNCHANGED nonEqVars
    /\ eq_pc = "resolve"
    /\ \E page \in ListingPages :
        /\ eq_mod' = [eq_mod EXCEPT
                !.page_urls = extract_all_page_urls_from_pagination(page)]
        /\ eq_fin' = [eq_fin EXCEPT
                !.page_urls = final_extract_all_page_urls_from_pagination(page)]
        /\ eq_reread' = (~page.read_raises /\ FinalFallsBack(page)
                            /\ page.reread_raises)
    /\ eq_pc' = "select"
    /\ UNCHANGED <<eq_load, eq_start_page, eq_max_pages>>

\* url_extractor.py 173-179, final.py 346-362: the pages to process.
EqSelect ==
    /\ UNCHANGED nonEqVars
    /\ eq_pc = "select"
    /\ \E start_page \in 0..(MaxPageNo + 1),
          max_pages \in {Unbounded} \cup {Pages(n) : n \in (-1)..MaxPageNo} :
        /\ eq_start_page' = start_page
        /\ eq_max_pages' = max_pages
        /\ eq_mod' = [eq_mod EXCEPT
                !.selected = PagesToProcess(eq_mod.page_urls, start_page, max_pages)]
        /\ eq_fin' = [eq_fin EXCEPT
                !.selected = FinalPagesToProcess(eq_fin.page_urls, start_page, max_pages)]
    /\ eq_pc' = "collect"
    /\ UNCHANGED <<eq_load, eq_reread>>

\* url_extractor.py 184-196, final.py 366-383: the pages are visited.
EqCollect ==
    /\ UNCHANGED nonEqVars
    /\ eq_pc = "collect"
    /\ \E site \in SitePages :
        /\ eq_mod' = [eq_mod EXCEPT !.products = Collected(eq_mod.selected, site)]
        /\ eq_fin' = [eq_fin EXCEPT !.products = Collected(eq_fin.selected, site)]
    /\ eq_pc' = "done"
    /\ UNCHANGED <<eq_load, eq_reread, eq_start_page, eq_max_pages>>

InitEquiv == OrchInit /\ RwIdle /\ RxIdle /\ EanIdle /\ PrIdle /\ UcIdle /\ PgIdle /\ CpIdle /\ UpIdle /\ PvIdle /\ MnIdle /\ EqInit
NextEquiv == EqLoad \/ EqResolve \/ EqSelect \/ EqCollect
SpecEquiv == InitEquiv /\ [][NextEquiv]_allVars

\* ------------------------------------------------------- claim formulas
BothEmpty(r) == r.price = "" /\ r.ean = ""
AnyEmpty(r) == r.price = "" \/ r.ean = ""
Failed == SeqToSet(failed_products)
ExtractingEnded == Len(phase1_data) > 0

\* C1: a record field (price or EAN) that was non-empty when EXTRACTING
\* ended keeps exactly that value through RETRYING and in the rows written
\* at SAVING, whatever the retry pass finds on the page.
C1_RetryKeepsPhase1Fields ==
    ExtractingEnded =>
        \A i \in 1..Len(phase1_data) :
            /\ phase1_data[i].price # "" =>
                /\ products_data[i].price = phase1_data[i].price
                /\ written.file => written.rows[i].price = phase1_data[i].price
            /\ phase1_data[i].ean # "" =>
                /\ products_data[i].ean = phase1_data[i].ean
                /\ written.file => written.rows[i].ean = phase1_data[i].ean

\* C1 witness: the rows were written after a retry in which the page
\* showed another value for a field already set in phase 1.
C1_Witness == written.file /\ offered

\* C2: when the summary is printed, error_count is the number of records
\* with both fields empty: a product that recovered a field in the retry
\* pass is no longer counted.
C2_ErrorCountAdjustedByRetry ==
    summary.emitted =>
        summary.error_count =
            Cardinality({i \in 1..Len(products_data) : BothEmpty(products_data[i])})

\* C3: when the summary is printed, missing_ean_count is the number of
\* records with an empty EAN and missing_price_count the number of records
\* with an empty price.
C3_MissingCountsMatchRecords ==
    summary.emitted =>
        /\ summary.missing_ean_count =
            Cardinality({i \in 1..Len(products_data) : products_data[i].ean = ""})
        /\ summary.missing_price_count =
            Cardinality({i \in 1..Len(products_data) : products_data[i].price = ""})

FailureListMatches(data) ==
    /\ \A i \in 1..Len(data) : (data[i].url \in Failed) <=> AnyEmpty(data[i])
    /\ error_count = Cardinality({i \in 1..Len(data) : BothEmpty(data[i])})

\* C4: during and after EXTRACTING a URL is in the failure list exactly when
\* its phase-1 record has an empty price or an empty EAN, and error_count is
\* the number of phase-1 records with both fields empty.
C4_FailureListAndErrorCount ==
    /\ phase = "EXTRACTING" => FailureListMatches(products_data)
    /\ ExtractingEnded => FailureListMatches(phase1_data)

\* C4 witness: EXTRACTING has ended with one record missing exactly one
\* field and one record missing both.
C4_Witness ==
    /\ phase = "EXTRACTING"
    /\ idx > Len(product_urls)
    /\ \E i, j \in 1..Len(products_data) :
        /\ AnyEmpty(products_data[i]) /\ ~BothEmpty(products_data[i])
        /\ BothEmpty(products_data[j])
    /\ error_count = 1
    /\ Len(failed_products) = 2

\* C5: a URL is navigated at most once in the retry pass and only if it is in
\* the failure list; when the retry pass is over every URL of the failure
\* list has been navigated exactly once.
C5_RetryPassRunsOnce ==
    /\ \A u \in URLS : nav2[u] <= 1 /\ (nav2[u] = 1 => u \in Failed)
    /\ phase \in {"SAVING", "DONE"} => \A u \in Failed : nav2[u] = 1

\* C5 witness: the run is over, a retried product is still missing a field
\* and a product that did not fail was not navigated again.
C5_Witness ==
    /\ phase = "DONE"
    /\ pc = "returned"
    /\ \E i, j \in 1..Len(products_data) :
        /\ products_data[i].url \in Failed
        /\ AnyEmpty(products_data[i])
        /\ nav2[products_data[i].url] = 1
        /\ products_data[j].url \notin Failed
        /\ nav2[products_data[j].url] = 0

\* C6: the phase changes only along INIT, RESOLVING_URLS, EXTRACTING,
\* RETRYING, SAVING, DONE (or to ERROR): RETRYING is entered exactly when
\* the failure list is non-empty at the end of EXTRACTING, no phase is
\* entered again, and SAVING is entered only when every URL was processed.
C6_PhaseOrder ==
    [][phase' # phase =>
        \/ phase' = "ERROR" /\ phase # "DONE"
        \/ phase = "INIT" /\ phase' = "RESOLVING_URLS"
        \/ phase = "RESOLVING_URLS" /\ phase' = "EXTRACTING"
        \/ phase = "RESOLVING_URLS" /\ phase' = "DONE" /\ product_urls' = <<>>
        \/ /\ phase = "EXTRACTING"
           /\ Len(products_data) = Len(product_urls)
           /\ \A i \in 1..Len(product_urls) : nav1[product_urls[i]] = 1
           /\ \/ phase' = "RETRYING" /\ failed_products # <<>>
              \/ phase' = "SAVING" /\ failed_products = <<>>
        \/ /\ phase = "RETRYING"
           /\ phase' = "SAVING"
           /\ \A u \in Failed : nav2[u] = 1
        \/ phase = "SAVING" /\ phase' = "DONE"]_vars

\* C6 witness: a run that went through RETRYING and SAVING is DONE.
C6_Witness ==
    /\ phase = "DONE"
    /\ written.file
    /\ failed_products # <<>>
    /\ \A u \in Failed : nav2[u] = 1

\* C7: when the run has returned or raised, the session it created has been
\* terminated by exactly one quit call.
C7_SessionTerminatedOnce ==
    pc \in {"returned", "raised"} =>
        \/ session = "none" /\ quitCalls = 0
        \/ session = "closed" /\ quitCalls = 1

\* C8: a category scrape never raises to its caller, and when it returns
\* after a failure it is in the ERROR state.
C8_NeverRaises ==
    /\ pc # "raised"
    /\ pc = "returned" => phase \in {"DONE", "ERROR"}

\* C9: a product whose phase-1 processing raised has a record with both
\* fields empty and is in the failure list; when EXTRACTING has ended every
\* product URL was navigated and has a record; when RETRYING has ended every
\* failed product was retried, whichever products raised.
C9_ProductFailureDoesNotAbortBatch ==
    /\ \A u \in raised1 :
        /\ u \in Failed
        /\ \E i \in 1..Len(products_data) :
            products_data[i].url = u /\ (phase = "EXTRACTING" => BothEmpty(products_data[i]))
    /\ ExtractingEnded =>
        /\ Len(phase1_data) = Len(product_urls)
        /\ \A i \in 1..Len(product_urls) :
            /\ nav1[product_urls[i]] = 1
            /\ phase1_data[i].url = product_urls[i]
            /\ product_urls[i] \in raised1 => BothEmpty(phase1_data[i])
    /\ phase \in {"SAVING", "DONE"} => \A u \in Failed : nav2[u] = 1

\* C9 witness: the first product raised in phase 1 and again in the retry
\* pass; the second product was processed in both passes all the same.
C9_Witness ==
    /\ phase = "SAVING"
    /\ Len(product_urls) = 2
    /\ product_urls[1] \in raised1
    /\ product_urls[1] \in raised2
    /\ Len(products_data) = 2
    /\ failed_products = product_urls
    /\ nav2[product_urls[2]] = 1

\* C10: when the run ended in ERROR with at least one record collected, the
\* records were handed to save_result_to_excel.
C10_PartialDataSaved ==
    (pc = "returned" /\ phase = "ERROR" /\ Len(products_data) > 0) => handed

FailsTwiceThenSucceeds(f) == ~Truthy(f[1]) /\ ~Truthy(f[2]) /\ Truthy(f[3])

\* C11: for max_attempts n >= 1 the retry wrapper calls the function at most
\* n times, returns the first truthy result and stops there, and returns
\* None exactly when the first n calls all gave a falsy result; a function
\* that fails twice then succeeds gives its value with n = 3 and None after
\* exactly two calls with n = 2.
C11_RetryWrapper ==
    /\ rw_pc # "idle" /\ rw_n >= 1 => rw_calls <= rw_n
    /\ rw_pc = "done" /\ rw_n >= 1 =>
        /\ Truthy(rw_result) =>
            /\ rw_result = rw_f[rw_calls]
            /\ \A j \in 1..(rw_calls - 1) : ~Truthy(rw_f[j])
        /\ ~Truthy(rw_result) => rw_result = None /\ rw_calls = rw_n
        /\ rw_result = None <=> \A j \in 1..rw_n : ~Truthy(rw_f[j])
        /\ FailsTwiceThenSucceeds(rw_f) =>
            /\ rw_n = 3 => rw_result = rw_f[3] /\ rw_calls = 3
            /\ rw_n = 2 => rw_result = None /\ rw_calls = 2
        /\ rw_result = retry_extraction(rw_f, rw_n).result
        /\ rw_calls = retry_extraction(rw_f, rw_n).calls

\* C11 witness: a function that fails twice then succeeds was given two
\* attempts, and the wrapper has returned.
C11_Witness ==
    /\ rw_pc = "done"
    /\ rw_n = 2
    /\ FailsTwiceThenSucceeds(rw_f)
    /\ rw_calls = 2
    /\ rw_result = None

\* The keyword of the text is a keyword and what follows it is separators.
RxWellFormed(parts) ==
    /\ parts.keyword # <<"E", "A">>
    /\ parts.seps # <<"=">>

\* C15: the regex tier returns the digit run that follows the keyword (any
\* case) and any number of ':', whitespace or '-' separators; the run it
\* returns has 8 to 14 digits; a keyword followed by fewer than 8 digits
\* gives None.  "ean: 08718468778" gives "08718468778", "EAN-1234567" None.
C15_RegexTier ==
    /\ rx_pc = "done" /\ ~rx_raised =>
        /\ rx_out # <<>> =>
            /\ Len(rx_out) >= 8 /\ Len(rx_out) <= 14
            /\ \A i \in 1..Len(rx_out) : IsDigit(rx_out[i])
        /\ RxWellFormed(rx_parts) /\ rx_parts.d >= 8 =>
            rx_out = Digits(IF rx_parts.d <= 14 THEN rx_parts.d ELSE 14)
        /\ RxWellFormed(rx_parts) /\ rx_parts.d < 8 => rx_out = <<>>
        /\ ~RxWellFormed(rx_parts) => rx_out = <<>>
    /\ extract_ean_regex(<<"e", "a", "n", ":", " ", "0", "8", "7", "1", "8",
                           "4", "6", "8", "7", "7", "8">>)
         = <<"0", "8", "7", "1", "8", "4", "6", "8", "7", "7", "8">>
    /\ extract_ean_regex(<<"E", "A", "N", "-", "1", "2", "3", "4", "5", "6", "7">>)
         = <<>>

\* C15 witness: a lower-case keyword, separators and 11 digits were
\* searched, after an earlier keyword with too few digits.
C15_Witness ==
    /\ rx_pc = "done"
    /\ rx_parts.prefix = <<"E", "A", "N", "-", "1", "2", " ">>
    /\ rx_parts.keyword = <<"e", "a", "n">>
    /\ rx_parts.seps = <<":", " ">>
    /\ rx_parts.d = 11
    /\ rx_out = Digits(11)

\* The entries of the log that belong to one pass, in order.
PassEntries(p) == SelectSeq(ean_log, LAMBDA e : e.pass = p)
\* A pass ran its tiers in order from tier 1 and stopped at the first value.
PassInOrder(p) ==
    LET es == PassEntries(p)
    IN /\ \A k \in 1..Len(es) : es[k].tier = k
       /\ \A k \in 1..(Len(es) - 1) : es[k].out = <<>>

\* C12: within one pass the tiers are tried strictly in the order
\* structured, script-evaluated, regex, and the first tier that yields a
\* non-empty value wins: when tier 1 succeeds tiers 2 and 3 are not invoked,
\* when tier 2 succeeds tier 3 is not invoked, and the value of the pass is
\* the value of that tier.
C12_TierOrdering ==
    /\ \A p \in 1..2 : PassInOrder(p)
    /\ \A k \in 1..Len(ean_log) :
        ean_log[k].out # <<>> =>
            /\ k = Len(ean_log)
            /\ ean_pc = "done"
            /\ ean_result = ean_log[k].out
    /\ ean_pc = "tier2" => Len(PassEntries(ean_pass)) = 1
    /\ ean_pc = "tier3" => Len(PassEntries(ean_pass)) = 2

\* C12 witness: tier 1 found the value in the first pass and nothing else
\* was invoked.
C12_Witness ==
    /\ ean_pc = "done"
    /\ Len(ean_log) = 1
    /\ ean_log[1].tier = 1
    /\ ean_log[1].out = Digits(8)
    /\ ean_result = Digits(8)

\* The name of the position at which tier t runs.
TierPc(t) == <<"tier1", "tier2", "tier3">>[t]

\* C13: an exception inside a tier, on a row or on the tier as a whole, is
\* "not found" at that tier only: the next tier of the pass is tried, and
\* after a first pass that found nothing the show-more retry is attempted.
C13_TierExceptionIsNotFound ==
    /\ \A k \in 1..Len(ean_log) :
        LET e == ean_log[k]
        IN /\ e.raised = "tier" => e.out = <<>>
           /\ e.raised # "no" /\ e.out = <<>> =>
               IF e.tier < 3
               THEN IF k = Len(ean_log)
                    THEN ean_pc = TierPc(e.tier + 1) /\ ean_pass = e.pass
                    ELSE /\ ean_log[k + 1].tier = e.tier + 1
                         /\ ean_log[k + 1].pass = e.pass
               ELSE e.pass = 1 =>
                    \/ ean_pc = "showmore"
                    \/ ean_showmore # "untried"
    /\ ean_pc = "done" /\ ean_pass = 1 /\ Len(ean_log) = 3
       /\ ean_log[3].out = <<>> => ean_showmore # "untried"

\* C13 witness: in the first pass tier 1 raised as a whole, tier 2 raised on
\* a row and tier 3 raised, and the show-more retry found the value.
C13_Witness ==
    /\ ean_pc = "done"
    /\ Len(ean_log) >= 4
    /\ ean_log[1].raised = "tier"
    /\ ean_log[2].raised = "row" /\ ean_log[2].out = <<>>
    /\ ean_log[3].raised = "tier"
    /\ ean_showmore = "ok"
    /\ ean_result # <<>>

\* C14: the show-more control is clicked only after a complete first pass
\* of all three tiers found nothing and only if the control was found; at
\* most once; the second pass uses only the handle located after the click;
\* it runs the tiers once more in order, and there is no third pass.
C14_ShowMoreProtocol ==
    /\ ean_clicks <= 1
    /\ ean_pass <= 2
    /\ \A k \in 1..Len(ean_log) : ean_log[k].pass \in {1, 2}
    /\ Len(PassEntries(1)) <= 3 /\ Len(PassEntries(2)) <= 3
    /\ ean_showmore # "untried" =>
        /\ Len(PassEntries(1)) = 3
        /\ \A k \in 1..3 : ean_log[k].pass = 1 /\ ean_log[k].out = <<>>
    /\ ean_clicks = 1 =>
        ean_showmore \in {"click_raises", "refind_raises", "ok"}
    /\ ean_showmore = "ok" <=> ean_pass = 2
    /\ PassEntries(2) # <<>> => ean_showmore = "ok" /\ ean_clicks = 1
    /\ \A k \in 1..Len(ean_log) :
        ean_log[k].handle = IF ean_log[k].pass = 1 THEN "h1" ELSE "h2"
    /\ PassInOrder(2)
    /\ ean_pc = "done" /\ ean_pass = 2 =>
        /\ PassEntries(2) # <<>>
        /\ ean_result = ean_log[Len(ean_log)].out
        /\ ean_result = <<>> => Len(PassEntries(2)) = 3

\* C14 witness: the first pass found nothing, the control was clicked and
\* the second pass ran all three tiers on the new handle.
C14_Witness ==
    /\ ean_pc = "done"
    /\ ean_clicks = 1
    /\ Len(ean_log) = 6
    /\ ean_log[6].handle = "h2"
    /\ ean_log[6].out = Digits(13)
    /\ ean_result = Digits(13)

\* The price element and its leading text were read.
PriceRead == pr_page.element = "present" /\ ~pr_page.main.raises
\* The fraction element exists and its text was read.
FractionRead == pr_page.fraction.present /\ ~pr_page.fraction.raises
PriceI == KeepDigits(pr_page.main.text)
PriceF == Strip(pr_page.fraction.text)
\* The result is the decimal I.F.
ResultIs(I, F) ==
    /\ AllDigits(F)
    /\ pr_result = [ok |-> TRUE, whole |-> ToNat(I), frac |-> DropTrailingZeros(F)]

\* The result is I.00.
ResultIsWhole == ResultIs(PriceI, <<"0", "0">>)

\* C16 as stated: with I the digits of the leading text of the price
\* element, the result is absent when I is empty, I.F when a fraction
\* element with text F exists, and I.00 when there is no fraction element.
C16_Original ==
    pr_pc = "done" /\ PriceRead =>
        /\ PriceI = <<>> => pr_result = PriceNone
        /\ PriceI # <<>> /\ FractionRead => ResultIs(PriceI, PriceF)
        /\ PriceI # <<>> /\ ~pr_page.fraction.present => ResultIsWhole

\* C16, amended: the result is absent when I is empty; I.F when a fraction
\* element with text F exists and I.F is a decimal number; I.00 when there
\* is no fraction element or I.F is not a decimal number ("12" with
\* fraction "99" gives 12.99, "8" with no fraction element 8.00, "8" with
\* fraction "-" 8.00, a text with no digits absent).
C16_PriceResult ==
    pr_pc = "done" /\ PriceRead =>
        /\ PriceI = <<>> => pr_result = PriceNone
        /\ PriceI # <<>> /\ FractionRead /\ AllDigits(PriceF) =>
            ResultIs(PriceI, PriceF)
        /\ PriceI # <<>> /\ FractionRead /\ ~AllDigits(PriceF) => ResultIsWhole
        /\ PriceI # <<>> /\ ~pr_page.fraction.present => ResultIsWhole

\* C16 witness: "12" with fraction "99" gave 12.99.
C16_Witness ==
    /\ pr_pc = "done" /\ PriceRead /\ FractionRead
    /\ pr_page.main.text = <<"1", "2">>
    /\ pr_page.fraction.text = <<"9", "9">>
    /\ pr_result = [ok |-> TRUE, whole |-> 12, frac |-> <<"9", "9">>]

\* C17 as stated: whenever the fraction element is present with a non-empty
\* text the result is integer.fraction; the fraction is "00" only when the
\* element is absent or its text is empty.
C17_Original ==
    pr_pc = "done" /\ PriceRead /\ PriceI # <<>> /\ FractionRead =>
        IF PriceF # <<>> THEN ResultIs(PriceI, PriceF) ELSE ResultIsWhole

\* C17, amended: whenever the fraction element is present and its text is
\* non-empty and makes integer.fraction a decimal number, the result is
\* integer.fraction; the fraction is "00" only when the element is absent,
\* its text cannot be read or is empty, or integer.fraction is not a
\* decimal number.
C17_FractionRule ==
    pr_pc = "done" /\ PriceRead /\ PriceI # <<>> =>
        IF FractionRead /\ PriceF # <<>> /\ FloatAccepts(PriceI \o <<".">> \o PriceF)
        THEN pr_result = Float(PriceI \o <<".">> \o PriceF)
        ELSE pr_result = Float(PriceI \o <<".", "0", "0">>)

\* C17 witness: "8" with fraction " 99 " gave 8.99.
C17_Witness ==
    /\ pr_pc = "done" /\ PriceRead /\ FractionRead
    /\ pr_page.main.text = <<"8">>
    /\ pr_page.fraction.text = <<" ", "9", "9", " ">>
    /\ pr_result = [ok |-> TRUE, whole |-> 8, frac |-> <<"9", "9">>]

\* The pagination was read and the range computed.
RangeResolved == uc_pc \in {"pages", "done"} /\ total_pages >= 0
\* start_page as the code uses it, at least 1 (line 173).
EffectiveStart == IF uc_start_page >= 1 THEN uc_start_page ELSE 1
\* The statement of C18 about a resolved range.
RangeAsClaimed ==
    /\ end_page >= EffectiveStart
    /\ Len(page_urls_to_process) = end_page - EffectiveStart + 1
    /\ end_page =
         IF uc_max_pages.unbounded THEN total_pages
         ELSE IF EffectiveStart + uc_max_pages.n - 1 <= total_pages
              THEN EffectiveStart + uc_max_pages.n - 1
              ELSE total_pages

\* C18 as stated: for all start_page, max_pages and total_pages with
\* start_page <= total_pages, end_page >= start_page and the number of pages
\* selected is end_page - start_page + 1, with end_page = total_pages if
\* max_pages is unbounded and min(start_page + max_pages - 1, total_pages)
\* otherwise.
C18_Original ==
    RangeResolved /\ EffectiveStart <= total_pages => RangeAsClaimed

\* C18, amended: the same for max_pages unbounded or at least 1; the pages
\* selected are then start_page, ..., end_page.
C18_PageRange ==
    /\ RangeResolved
    /\ EffectiveStart <= total_pages
    /\ (uc_max_pages.unbounded \/ uc_max_pages.n >= 1)
    => /\ RangeAsClaimed
       /\ \A k \in 1..Len(page_urls_to_process) :
           page_urls_to_process[k] = EffectiveStart + k - 1

\* C18 witness: 3 pages, start_page 2, max_pages 2: pages 2 and 3.
C18_Witness ==
    /\ RangeResolved
    /\ total_pages = 3 /\ uc_start_page = 2 /\ uc_max_pages = Pages(2)
    /\ end_page = 3
    /\ page_urls_to_process = <<2, 3>>

\* C19: if start_page > total_pages the function returns an empty list,
\* without raising, and hands no listing page to the per-page collector.
C19_StartBeyondLastPage ==
    total_pages >= 0 /\ uc_start_page > total_pages =>
        /\ uc_pc = "done"
        /\ uc_result = <<>>
        /\ page_urls_to_process = <<>>
        /\ \A k \in 1..Len(uc_nav) : uc_nav[k].by # "collector"

\* C19 witness: start_page 4 on a category of 3 pages returned [].
C19_Witness ==
    /\ uc_pc = "done"
    /\ total_pages = 3 /\ uc_start_page = 4
    /\ uc_result = <<>>
    /\ Len(uc_nav) = 1

\* The run of C20: 3 listing pages, start_page = 2, max_pages = 1.
C20_Run ==
    /\ uc_pc = "done"
    /\ uc_site_pages = 3 /\ total_pages = 3
    /\ uc_start_page = 2 /\ uc_max_pages = Pages(1)

\* C20 as stated: in that run only page 2 is visited; pages 1 and 3 are not
\* visited by the run.
C20_Original ==
    C20_Run => \A k \in 1..Len(uc_nav) : uc_nav[k].page = 2

\* C20, amended: in that run only page 2 is visited through the per-page
\* collector and page 3 is not visited; page 1 is loaded once, as the
\* category URL from which the pagination is read.
C20_PageSelection ==
    C20_Run =>
        uc_nav = <<[by |-> "category", page |-> 1],
                   [by |-> "collector", page |-> 2]>>

\* C20 witness: the run ended with the products of page 2.
C20_Witness ==
    /\ C20_Run
    /\ Len(uc_nav) = 2 /\ uc_nav[2].page = 2
    /\ uc_result # <<>>

\* The page-indexed links of the control, by page number.
PageLinks ==
    {pg_page.control.items[k].n :
        k \in {j \in 1..Len(pg_page.control.items) :
                  pg_page.control.items[j].link = "page"}}
PgBase == [path |-> pg_page.current_url.path, query |-> [kind |-> "none", n |-> 0]]

\* C21: for a resolved maximum page m >= 1 the result has exactly m distinct
\* URLs in ascending page order: the bare base URL first, and as k-th
\* element, 2 <= k <= m, the base URL with page index k.
C21_ResolverOutputShape ==
    pg_pc = "done" /\ pg_max_page >= 1 =>
        /\ Len(pg_urls) = pg_max_page
        /\ pg_urls[1] = PgBase
        /\ \A k \in 2..pg_max_page :
            pg_urls[k] = [path |-> PgBase.path, query |-> [kind |-> "page", n |-> k]]
        /\ \A i, j \in 1..Len(pg_urls) : i # j => pg_urls[i] # pg_urls[j]

\* C21 witness: the maximum 3 was resolved on a page read as ...?page=2.
C21_Witness ==
    /\ pg_pc = "done"
    /\ pg_max_page = 3
    /\ pg_page.current_url.query.kind = "page"
    /\ Len(pg_urls) = 3

\* C22: the maximum page number the resolver uses is the maximum page
\* number among all page-indexed links of the control.
C22_MaxPageIsMaximum ==
    pg_pc = "done" /\ pg_max_page # -1 /\ PageLinks # {} =>
        /\ pg_max_page \in PageLinks
        /\ \A n \in PageLinks : n <= pg_max_page

\* C23: whenever the URL of the current page can be read the result is not
\* empty; without a pagination control, without a page-indexed link, or
\* after a failure, it is exactly the current URL without its query string.
C23_ResolverNeverEmpty ==
    pg_pc = "done" /\ ~(pg_page.read_raises /\ pg_page.reread_raises) =>
        /\ pg_urls # <<>>
        /\ pg_urls[1] = PgBase
        /\ \/ ~pg_page.control.found
           \/ PageLinks = {}
           \/ pg_page.read_raises
           => pg_urls = <<PgBase>>

\* C23 witness: reading the URL failed once and the fallback returned the
\* current page, although the control shows three pages.
C23_Witness ==
    /\ pg_pc = "done"
    /\ pg_page.read_raises /\ ~pg_page.reread_raises
    /\ 3 \in PageLinks
    /\ pg_urls = <<PgBase>>

\* The accepted product links of the page, in page order.
CpAccepted == ProductUrlsFrom(cp_links, 1)
\* Position of the first occurrence of x in seq.
FirstAt(seq, x) == CHOOSE k \in 1..Len(seq) : seq[k] = x /\ \A j \in 1..(k - 1) : seq[j] # x

\* C24: the collector returns each distinct accepted URL exactly once,
\* ordered by first occurrence; [A, B, A, C] gives [A, B, C].
C24_DedupKeepsFirstSeenOrder ==
    /\ cp_pc = "done" /\ cp_result # <<>> =>
        /\ \A i, j \in 1..Len(cp_result) : i # j => cp_result[i] # cp_result[j]
        /\ \A k \in 1..Len(CpAccepted) : Contains(cp_result, CpAccepted[k])
        /\ \A i \in 1..Len(cp_result) : Contains(CpAccepted, cp_result[i])
        /\ \A i, j \in 1..Len(cp_result) :
            i < j => FirstAt(CpAccepted, cp_result[i]) < FirstAt(CpAccepted, cp_result[j])
    /\ FromKeys(<<"A", "B", "A", "C">>) = <<"A", "B", "C">>

\* C24 witness: the page showed A, B, A (with a query), C.
C24_Witness ==
    /\ cp_pc = "done"
    /\ Len(cp_links) = 4
    /\ cp_links[1].id = "A" /\ cp_links[2].id = "B"
    /\ cp_links[3].id = "A" /\ cp_links[3].query /\ cp_links[4].id = "C"
    /\ Len(cp_result) = 3
    /\ cp_result[1].id = "A" /\ cp_result[2].id = "B" /\ cp_result[3].id = "C"

\* C25: the list returned by the collection of product URLs has each URL at
\* the position of its first discovery across the listing pages.
C25_ResultInDiscoveryOrder ==
    uc_pc = "done" /\ uc_load = "ok" => uc_result = uc_discovered

\* C26: when the collection of some listing page of the range fails, every
\* product URL harvested from the other pages is in the list returned.
C26_PartialProgressKept ==
    uc_pc = "done" /\ uc_load = "ok" =>
        /\ \A k \in 1..Len(uc_discovered) :
            \E i \in 1..Len(uc_result) : uc_result[i] = uc_discovered[k]
        /\ \A i \in 1..Len(uc_result) :
            \E k \in 1..Len(uc_discovered) : uc_result[i] = uc_discovered[k]
        /\ Len(uc_result) = Len(uc_discovered)

\* C26 witness: of three pages the second failed, the first and the third
\* gave one URL each, and both were returned.
C26_Witness ==
    /\ uc_pc = "done"
    /\ page_urls_to_process = <<1, 2, 3>>
    /\ uc_failed = {2}
    /\ Len(uc_discovered) = 2
    /\ Len(uc_result) = 2

\* C27: if the category URL fails to load, or no product link appears on it
\* in time, the function returns an empty list without resolving the
\* pagination and without visiting a listing page.
C27_CategoryLoadFailure ==
    uc_load \in {"navigate_fails", "wait_raises"} =>
        /\ uc_pc = "done"
        /\ uc_result = <<>>
        /\ total_pages = -1
        /\ page_urls_to_process = <<>>
        /\ uc_nav = <<[by |-> "category", page |-> 1]>>

\* C27 witness: the category URL did not load.
C27_Witness ==
    /\ uc_pc = "done"
    /\ uc_load = "navigate_fails"
    /\ uc_result = <<>>

\* C28: every product URL returned by URL resolution has exactly one record
\* in the dataset handed to persistence, a product with missing fields
\* included; this holds when EXTRACTING has ended and still holds after
\* RETRYING, which changes records in place.
RecordUrls(data) == [i \in 1..Len(data) |-> data[i].url]

C28_OneRecordPerUrl ==
    /\ phase \in {"RETRYING", "SAVING", "DONE"} \/ handed =>
        /\ RecordUrls(phase1_data) = product_urls
        /\ RecordUrls(products_data) = product_urls
        /\ \A u \in SeqToSet(product_urls) :
            Cardinality({i \in 1..Len(products_data) : products_data[i].url = u}) = 1
    /\ written.file => RecordUrls(written.rows) = product_urls

\* C28 witness: two products were written after a retry pass, one of them
\* with both fields empty.
C28_Witness ==
    /\ written.file
    /\ Len(product_urls) = 2
    /\ \E u \in SeqToSet(product_urls) : nav2[u] > 0
    /\ \E i \in 1..Len(written.rows) :
        written.rows[i].ean = "" /\ written.rows[i].price = ""

\* C29 as stated: after a navigation failure reported by navigate_to_page
\* the caller goes on to the extraction, for a product page in both passes
\* and for a listing page and the category page alike.
C29_Original ==
    /\ pv_nav = "failed" /\ pv_pc = "done" => pv_calls # <<>>
    /\ cp_nav = "failed" => cp_scanned
    /\ uc_load = "navigate_fails" => total_pages # -1

\* C29, amended: after a navigation failure on a product page the caller
\* goes on to the extraction in both passes; after a navigation failure on a
\* listing page or on the category page the caller returns an empty list
\* and attempts no extraction.
C29_ProceedsOnProductPages ==
    /\ pv_nav = "failed" =>
        /\ pv_pass \in {1, 2}
        /\ pv_pc = "done" => pv_calls # <<>>
    /\ cp_nav = "failed" => cp_pc = "done" /\ ~cp_scanned /\ cp_result = <<>>
    /\ uc_load = "navigate_fails" =>
        uc_pc = "done" /\ total_pages = -1 /\ uc_result = <<>>

\* C29 witness: in the retry pass the navigation to a product page failed
\* and the EAN, the empty field, was extracted all the same.
C29_Witness ==
    /\ pv_pass = 2
    /\ pv_nav = "failed"
    /\ pv_pc = "done"
    /\ pv_calls = <<"ean">>
    /\ pv_record.ean # ""

\* C30: the update of an existing output file writes the file back if and
\* only if a row with a blank EAN obtained a code, and the session it opened
\* is terminated in every case.
C30_RewrittenIffUpdated ==
    up_pc = "done" =>
        /\ up_written # "no" <=> up_updated # {}
        /\ up_session # "live"

\* C31: when several categories are processed, at no time are two browser
\* sessions live, and the session of a category is terminated before the
\* session of the next category is created.
LiveSessions == {k \in 1..Len(mn_sessions) : mn_sessions[k] = "live"}

C31_OneSessionAtATime ==
    /\ Cardinality(LiveSessions) <= 1
    /\ \A k \in LiveSessions : k = Len(mn_sessions)
    /\ mn_pc = "create" => LiveSessions = {}

\* C31 witness: the third category is being scraped with its session live,
\* after the sessions of the first two were closed.
C31_Witness ==
    /\ mn_pc = "body"
    /\ mn_sessions = <<"closed", "closed", "live">>

\* C32: in the retry pass the extractor of a field is invoked if and only if
\* the field is empty in the record at that moment: a price re-attempt that
\* finds nothing does not prevent the EAN re-attempt, and a field that
\* succeeded in the first pass is not re-attempted.  (A re-attempt that
\* raises ends the visit in the handler of lines 200-201.)
Called(field) == \E k \in 1..Len(pv_calls) : pv_calls[k] = field
PriceRaised == pv_raised /\ pv_calls[Len(pv_calls)] = "price"

C32_RetryOnlyEmptyFields ==
    pv_pass = 2 /\ pv_pc = "done" =>
        /\ Called("price") <=> pv_start.price = ""
        /\ ~PriceRaised => (Called("ean") <=> pv_start.ean = "")
        /\ Called("ean") => pv_start.ean = ""
        /\ Len(pv_calls) <= 2
        /\ pv_calls \in {<<>>, <<"price">>, <<"ean">>, <<"price", "ean">>}
        /\ ~Called("price") => pv_record.price = pv_start.price
        /\ ~Called("ean") => pv_record.ean = pv_start.ean

\* C32 witness: both fields were empty, the price re-attempt found nothing
\* and the EAN re-attempt was made and found the code.
C32_Witness ==
    /\ pv_pass = 2
    /\ pv_pc = "done"
    /\ pv_start = NoFields
    /\ pv_calls = <<"price", "ean">>
    /\ pv_record.price = ""
    /\ pv_record.ean # ""

\* A second case of C32: the price of the first pass is kept and only the
\* EAN is re-attempted.
C32_PriceKept ==
    /\ pv_pass = 2
    /\ pv_pc = "done"
    /\ pv_start.price # ""
    /\ pv_calls = <<"ean">>

\* C33: the retry wrapper sleeps only between two consecutive attempts: a
\* run of k attempts performs exactly k - 1 sleeps, with no sleep after a
\* successful attempt and none after the final failed attempt.
C33_SleepsBetweenAttempts ==
    /\ rw_pc = "done" /\ rw_calls >= 1 => rw_sleeps = rw_calls - 1
    /\ rw_pc = "done" /\ rw_calls = 0 => rw_sleeps = 0
    /\ rw_pc = "loop" /\ rw_n >= 1 => rw_sleeps = Min(rw_calls, rw_n - 1)
    /\ rw_pc = "done" /\ rw_n >= 1 =>
        rw_sleeps = retry_extraction(rw_f, rw_n).sleeps

\* C33 witness: three attempts all failed, with two sleeps between them.
C33_Witness ==
    /\ rw_pc = "done"
    /\ rw_n = 3
    /\ rw_calls = 3
    /\ rw_sleeps = 2
    /\ rw_result = None

\* A second case of C33: success at the second attempt after one sleep.
C33_SuccessAfterOneSleep ==
    /\ rw_pc = "done"
    /\ rw_calls = 2
    /\ rw_sleeps = 1
    /\ Truthy(rw_result)

\* C34: a price of zero is a failure like a missing element: the retry
\* wrapper retries and returns None, and the orchestrator records an empty
\* price, counts it in missing_price_count and queues the URL for the retry.
ZeroPrice == [j \in 1..RETRY_ATTEMPTS |-> "0.0"]
EmptyPrices(data) ==
    {i \in 1..Len(data) : data[i].price = "" /\ data[i].url \notin raised1}

C34_ZeroPriceIsFailure ==
    /\ ZeroPrice \in PriceAttempts
    /\ retry_extraction(ZeroPrice, RETRY_ATTEMPTS).result = None
    /\ retry_extraction(ZeroPrice, RETRY_ATTEMPTS).calls = RETRY_ATTEMPTS
    /\ "0.0" \notin PriceOutcomes
    /\ \A i \in 1..Len(products_data) : products_data[i].price # "0.0"
    /\ phase = "EXTRACTING" =>
        /\ \A i \in EmptyPrices(products_data) :
            products_data[i].url \in SeqToSet(failed_products)
        /\ missing_price_count = Cardinality(EmptyPrices(products_data))

\* C34 witness: a product whose price extraction gave nothing (as it does
\* for a price of zero) and whose EAN was found is recorded with an empty
\* price, counted and queued.
C34_Witness ==
    /\ phase = "EXTRACTING"
    /\ Len(products_data) = 1
    /\ products_data[1].price = ""
    /\ products_data[1].ean # ""
    /\ raised1 = {}
    /\ missing_price_count = 1
    /\ failed_products = <<products_data[1].url>>

\* C35: every non-empty code that get_product_ean returns, whichever tier
\* produced it, before or after show-more, is a run of 8 to 14 digits.
C35_CodeIsDigitRun ==
    ean_pc = "done" /\ ean_result # <<>> =>
        /\ Len(ean_result) >= EAN_MIN_DIGITS
        /\ Len(ean_result) <= EAN_MAX_DIGITS
        /\ \A i \in 1..Len(ean_result) : IsDigit(ean_result[i])

\* C36: in every reachable state of a category scrape missing_ean_count and
\* missing_price_count are non-negative and at most the number of records,
\* also after caught per-product exceptions and recoveries in the retry pass.
C36_CountersInRange ==
    /\ missing_ean_count \in 0..Len(products_data)
    /\ missing_price_count \in 0..Len(products_data)
    /\ phase = "RETRYING" =>
        /\ r_missing_ean \in 0..Len(products_data)
        /\ r_missing_price \in 0..Len(products_data)

\* C37: provided every browser operation returns, a category scrape always
\* terminates in DONE or ERROR with the session released.
C37_TerminatesReleased ==
    <>(/\ pc = "returned"
       /\ phase \in {"DONE", "ERROR"}
       /\ session = "closed")

\* What does hold: the scrape always ends, and when create_driver did not
\* raise it ends in DONE or ERROR with the session closed; no URL is
\* navigated to more than once in a pass.
C37_EndsUnlessCreateRaised ==
    <>(\/ pc = "raised"
       \/ pc = "returned" /\ phase \in {"DONE", "ERROR"} /\ session = "closed")
C37_NavigatedOncePerPass ==
    \A u \in URLS : nav1[u] <= 1 /\ nav2[u] <= 1

\* C38: if URL resolution yields no product URL, the run ends without
\* entering EXTRACTING, without printing the summary, without calling
\* save_result_to_excel, and the session is still terminated.
ResolvedNothing == phase = "DONE" /\ product_urls = <<>>

C38_NoUrlsEndsRun ==
    /\ phase \in {"EXTRACTING", "RETRYING", "SAVING"} => product_urls # <<>>
    /\ product_urls = <<>> =>
        /\ ~summary.emitted
        /\ ~handed
        /\ written = NotWritten
        /\ products_data = <<>>
    /\ ResolvedNothing =>
        /\ pc \in {"finally", "returned"}
        /\ pc = "returned" => session = "closed" /\ quitCalls = 1

\* C38 witness: the resolution gave no URL and the run has returned.
C38_Witness ==
    /\ ResolvedNothing
    /\ pc = "returned"
    /\ session = "closed"
    /\ ~handed

\* C39 as stated: for every pagination-control state, navigation outcome,
\* start_page and max_pages, url_extractor.py and final.py process the same
\* list of listing-page URLs and return the same set of product URLs.
C39_Original ==
    eq_pc = "done" =>
        /\ eq_mod.selected = eq_fin.selected
        /\ eq_mod.products = eq_fin.products

\* C39, amended: the two process the same listing pages and return the same
\* product URLs in every case but one: the pagination control is not found
\* and the current URL cannot be read a second time.
C39_SameUnlessRereadFails ==
    (eq_pc = "done" /\ ~eq_reread) =>
        /\ eq_mod.page_urls = eq_fin.page_urls
        /\ eq_mod.selected = eq_fin.selected
        /\ eq_mod.products = eq_fin.products

\* C39, the case set apart: final.py resolves no page there, while
\* url_extractor.py resolves the page it is on.
C39_RereadFailsEmptiesFinal ==
    (eq_pc \in {"select", "collect", "done"} /\ eq_reread) =>
        /\ eq_fin.page_urls = <<>>
        /\ Len(eq_mod.page_urls) = 1
        /\ eq_fin.selected = <<>>
        /\ eq_fin.products = {}

\* C39's case: both were asked for two pages from page 2 on, of a category
\* of three or more, and came back with products.
C39_Witness ==
    /\ eq_pc = "done"
    /\ ~eq_reread
    /\ eq_start_page = 2
    /\ eq_max_pages = Pages(2)
    /\ Len(eq_fin.selected) = 2
    /\ eq_fin.selected = eq_mod.selected
    /\ eq_fin.products # {}
    /\ eq_fin.products = eq_mod.products

====
